---- MODULE Spec2Model ----
(***************************************************************************)
(* State-machine model of ag-helper, the OCF resource-agent helper for a   *)
(* SQL Server Availability Group replica, and of the mssqlcommon and       *)
(* mssqlcommon/ag packages it calls.                                       *)
(*                                                                         *)
(* One behaviour is one ag-helper process run against a database          *)
(* instance.  The main flow of the process is followed statement           *)
(* by statement through pc; every statement that talks to the database is  *)
(* a step of its own, so that the database may change between two of them. *)
(* Command-line flags and environment variables cannot change while a      *)
(* process runs; each is drawn where the code first reads it.              *)
(***************************************************************************)
EXTENDS Integers, Sequences, FiniteSets, TLC

\* ------------------------------------------------------------------ bounds
MaxLines == 2        \* lines in --sequence-numbers
MaxSync == 3         \* largest number of SYNCHRONOUS_COMMIT replicas
MaxRetries == 2      \* largest --online-databases-retries
MaxPolls == 2        \* role polls followed in one waitUntilRoleSatisfies
MaxAttempts == 2     \* connect attempts followed in OpenDBWithHealthCheck
MaxNumReplicas == 60 \* largest argument of the RSSTC formula on its own
MaxSetValue == 2     \* largest RSSTC value set twice in a row
MaxNameLen == 2      \* longest server name given to SetLocalServerName
MaxReplicaSets == 5  \* most replicas whose subsets are compared one by one

\* --------------------------------------------------------- decimal numerals
\* Numbers that arrive as text (flag values, sequence-number lines,
\* environment variables) are sequences of one-character strings, so that
\* values beyond 32 bits can be parsed and compared.
Digits == <<"0", "1", "2", "3", "4", "5", "6", "7", "8", "9">>

DigitChars == {Digits[i] : i \in 1..10}

DigitVal(c) == CHOOSE i \in 0..9 : Digits[i + 1] = c

IsDigits(s) == Len(s) > 0 /\ \A i \in 1..Len(s) : s[i] \in DigitChars

RECURSIVE StripZeros(_)
StripZeros(s) ==
    IF Len(s) > 1 /\ s[1] = "0" THEN StripZeros(Tail(s)) ELSE s

RECURSIVE LexGreater(_, _)
LexGreater(a, b) ==
    IF Len(a) = 0 THEN FALSE
    ELSE IF DigitVal(a[1]) # DigitVal(b[1]) THEN DigitVal(a[1]) > DigitVal(b[1])
    ELSE LexGreater(Tail(a), Tail(b))

\* magnitude comparison of two digit strings
DecGreater(a, b) ==
    LET x == StripZeros(a)
        y == StripZeros(b)
    IN  IF Len(x) # Len(y) THEN Len(x) > Len(y) ELSE LexGreater(x, y)

RECURSIVE DecValue(_)
DecValue(s) ==
    IF Len(s) = 0 THEN 0
    ELSE 10 * DecValue(SubSeq(s, 1, Len(s) - 1)) + DigitVal(s[Len(s)])

RECURSIVE DecText(_)
DecText(n) ==
    IF n < 10 THEN <<Digits[n + 1]>>
    ELSE Append(DecText(n \div 10), Digits[(n % 10) + 1])

MaxInt32 == 2147483647

MaxInt32Text == <<"2", "1", "4", "7", "4", "8", "3", "6", "4", "7">>

MaxInt64Text == <<"9", "2", "2", "3", "3", "7", "2", "0", "3", "6",
                  "8", "5", "4", "7", "7", "5", "8", "0", "7">>

\* MaxInt32 + 1 and MaxInt64 + 1
OverInt32Text == <<"2", "1", "4", "7", "4", "8", "3", "6", "4", "8">>

OverInt64Text == <<"9", "2", "2", "3", "3", "7", "2", "0", "3", "6",
                   "8", "5", "4", "7", "7", "5", "8", "0", "8">>

\* strconv.ParseInt(s, 10, 64) of a string of digits
ParseInt(s) ==
    IF DecGreater(s, MaxInt64Text)
    THEN [err |-> TRUE, value |-> 0]
    ELSE [err |-> FALSE, value |-> DecValue(StripZeros(s))]

\* ------------------------------------------------------------------- errors
NoErr == [kind |-> "nil", sev |-> 0, src |-> "nil"]

Err(k, s) == [kind |-> k, sev |-> 0, src |-> s]

ServerDownOrUnresponsive == 1
ServerCriticalError == 3
ServerModerateError == 4
ServerAnyQualifiedError == 5

ServerUnhealthyError(raw, s) == [kind |-> "ServerUnhealthy", sev |-> raw, src |-> s]

\* ---------------------------------------------------------- OCF exit codes
\* OcfNames in alphabetical order
OcfNames_alphabetical ==
    <<"OCF_ERR_ARGS", "OCF_ERR_CONFIGURED", "OCF_ERR_GENERIC", "OCF_ERR_PERM",
      "OCF_ERR_UNIMPLEMENTED", "OCF_FAILED_MASTER", "OCF_NOT_RUNNING",
      "OCF_RUNNING_MASTER", "OCF_SUCCESS">>

\* the names of the slots, in the order ImportOcfExitCodes imports them
OcfNames == <<"OCF_ERR_CONFIGURED", "OCF_ERR_GENERIC", "OCF_ERR_ARGS",
              "OCF_ERR_PERM", "OCF_ERR_UNIMPLEMENTED", "OCF_FAILED_MASTER",
              "OCF_NOT_RUNNING", "OCF_RUNNING_MASTER", "OCF_SUCCESS">>

OcfNameSet == {OcfNames[i] : i \in 1..Len(OcfNames)}

\* the values TestImportOcfExitCodes sets: all different and none of them 0
requiredEnvironmentVariables ==
    [n \in OcfNameSet |->
        CASE n = "OCF_SUCCESS" -> <<"1">>
          [] n = "OCF_ERR_ARGS" -> <<"2">>
          [] n = "OCF_ERR_CONFIGURED" -> <<"3">>
          [] n = "OCF_ERR_GENERIC" -> <<"4">>
          [] n = "OCF_ERR_PERM" -> <<"5">>
          [] n = "OCF_ERR_UNIMPLEMENTED" -> <<"6">>
          [] n = "OCF_FAILED_MASTER" -> <<"7">>
          [] n = "OCF_NOT_RUNNING" -> <<"8">>
          [] n = "OCF_RUNNING_MASTER" -> <<"9">>]

\* texts that strconv.Atoi rejects: the empty text (os.Getenv of a variable
\* that is not set), text that is no number, a number beyond 64 bits
InvalidValues == {<<>>, <<"A">>, OverInt64Text}

\* an environment has all variables set as above, or one or two of them
\* unset or set to a text that Atoi rejects
Environments ==
    {requiredEnvironmentVariables} \cup
    {[requiredEnvironmentVariables EXCEPT ![n] = v] : n \in OcfNameSet, v \in InvalidValues} \cup
    {[requiredEnvironmentVariables EXCEPT ![n] = v, ![m] = <<>>] :
        n \in OcfNameSet, m \in OcfNameSet, v \in {<<>>, <<"A">>}}

\* fmt.Errorf("%s is set to an invalid value [%s]", name, stringValue)
InvalidValueError(name, stringValue) ==
    [kind |-> "is set to an invalid value", sev |-> 0, src |-> name,
     raw |-> stringValue]

\* importOcfExitCode: strconv.Atoi of the variable's text (no text of
\* Environments carries a sign)
importOcfExitCode(env, name) ==
    IF IsDigits(env[name]) /\ ~DecGreater(env[name], MaxInt64Text)
    THEN [value |-> DecValue(StripZeros(env[name])), err |-> NoErr]
    ELSE [value |-> 0, err |-> InvalidValueError(name, env[name])]

\* ImportOcfExitCodes: the slots are assigned in order, the failing
\* variable's slot included, and the import stops at the first failure
RECURSIVE ImportFrom(_, _, _)
ImportFrom(slots, env, i) ==
    IF i > Len(OcfNames) THEN [slots |-> slots, err |-> NoErr]
    ELSE LET r == importOcfExitCode(env, OcfNames[i])
             s == [slots EXCEPT ![OcfNames[i]] = r.value]
         IN  IF r.err # NoErr THEN [slots |-> s, err |-> r.err]
             ELSE ImportFrom(s, env, i + 1)

\* ImportOcfExitCodes that leaves the slots alone when it fails
ImportOcfExitCodes_allOrNothing(slots, env) ==
    LET r == ImportFrom(slots, env, 1)
    IN  IF r.err # NoErr THEN [slots |-> slots, err |-> r.err] ELSE r

ImportOcfExitCodes(slots, env) == ImportFrom(slots, env, 1)

\* ----------------------------------------------------------- AG vocabulary
RoleRESOLVING == 0
RolePRIMARY == 1
RoleSECONDARY == 2

Roles == {RoleRESOLVING, RolePRIMARY, RoleSECONDARY}

AmASYNCHRONOUS_COMMIT == 0
AmSYNCHRONOUS_COMMIT == 1
AmCONFIGURATION_ONLY == 4

AvailabilityModes == {AmASYNCHRONOUS_COMMIT, AmSYNCHRONOUS_COMMIT, AmCONFIGURATION_ONLY}

Actions == {"start", "stop", "monitor", "pre-start", "post-stop",
            "pre-promote", "promote", "demote"}

\* ------------------------------------------------- sequence-number lines
\* A line of --sequence-numbers is given by the three fields the line regex
\* looks at; EmptyLine is the empty string, which strings.Split also yields
\* for an empty flag value.
Line(n, h, v) == [name |-> n, host |-> h, value |-> v]

EmptyLine == Line("", "", <<>>)

Hosts == {"n1", "n2"}

\* sequence numbers as the instance reports them
SequenceNumbers == {0, 1, 2}

SequenceNumberLines ==
    {Line("ag1-seq", h, DecText(v)) : h \in Hosts, v \in SequenceNumbers}
    \cup {EmptyLine, Line("ag1-seq", "n2", OverInt64Text)}

SequenceNumberInputs ==
    UNION {[1..n -> SequenceNumberLines] : n \in 1..MaxLines}

\* lineRegex: ^name="[^"]+" host="([^"]+)" value="(\d+)"$
lineRegexMatches(line) ==
    line.name # "" /\ line.host # "" /\ IsDigits(line.value)

\* the loop over the lines in promote
RECURSIVE parseSequenceNumbers(_, _, _)
parseSequenceNumbers(lines, newMaster, acc) ==
    IF acc.err \/ Len(lines) = 0 THEN acc
    ELSE LET line == Head(lines)
             v == ParseInt(line.value)
         IN  IF ~lineRegexMatches(line)
             THEN parseSequenceNumbers(Tail(lines), newMaster, acc)
             ELSE IF v.err
             THEN [acc EXCEPT !.err = TRUE]
             ELSE parseSequenceNumbers(Tail(lines), newMaster,
                     [err |-> FALSE,
                      maxSequenceNumber |->
                          IF v.value > acc.maxSequenceNumber THEN v.value
                          ELSE acc.maxSequenceNumber,
                      newMasterSequenceNumber |->
                          IF line.host = newMaster THEN v.value
                          ELSE acc.newMasterSequenceNumber,
                      numSequenceNumbers |-> acc.numSequenceNumbers + 1])

ParseStart ==
    [err |-> FALSE, maxSequenceNumber |-> 0, newMasterSequenceNumber |-> 0,
     numSequenceNumbers |-> 0]

\* ------------------------------------------------------------------- RSSTC
\* the formula without the case of two replicas
calculateRequiredSynchronizedSecondariesToCommit_plain(numReplicas) ==
    numReplicas \div 2

\* the formula that returns the quorum count itself
calculateRequiredSynchronizedSecondariesToCommit_quorumCount(numReplicas) ==
    numReplicas \div 2 + 1

calculateRequiredSynchronizedSecondariesToCommit(numReplicas) ==
    IF numReplicas = 2 THEN 0 ELSE numReplicas \div 2

\* numSyncCommitReplicas - requiredValue on uint: a negative difference d
\* wraps to 2^64 + d, kept as the pair (wrapped, d)
UintSub(a, b) == [wrapped |-> a < b, v |-> a - b]

\* n < x for a uint n below 2^63 and x a result of UintSub
UintLess(n, x) == x.wrapped \/ n < x.v

\* -------------------------------------------------------------------- state
VARIABLES
    pc,         \* statement the main flow of the process is at
    flags,      \* command-line flags and environment, as far as they were read
    ocf,        \* the nine process-wide OCF_* slots
    override,   \* requiredSynchronizedSecondariesToCommit: nil or a uint
    db,         \* the database instance: the AG row and the local replica
    opened,     \* connections (by attempt number) OpenDB has opened
    closed,     \* connections that were closed
    connector,  \* the connector goroutine of OpenDBWithHealthCheck
    main,       \* db and err of the main flow
    loc,        \* locals of the running action handler
    trace,      \* statements this process sent or ran, in order
    ret,        \* (ocfExitCode, err) returned by the handler
    exit,       \* how the process ended
    calc,       \* argument and result of the RSSTC formula on its own
    lib         \* calls of library functions on their own: arguments, results

vars == <<pc, flags, ocf, override, db, opened, closed, connector, main,
          loc, trace, ret, exit, calc, lib>>

NilOverride == [set |-> FALSE, v |-> 0]

DefaultFlags ==
    [action |-> "", newMaster |-> "", healthThreshold |-> ServerCriticalError,
     numRetriesForOnlineDatabases |-> 60, skipPreCheck |-> FALSE,
     sequenceNumbers |-> <<EmptyLine>>,
     rsstcArg |-> [neg |-> TRUE, digits |-> <<"1">>],
     environ |-> requiredEnvironmentVariables, imported |-> FALSE]

ZeroSlots == [n \in OcfNameSet |-> 0]

ZeroLoc ==
    [caller |-> "", role |-> RoleRESOLVING, isPrimary |-> FALSE,
     roleQueried |-> FALSE, availabilityMode |-> AmASYNCHRONOUS_COMMIT,
     modeQueried |-> FALSE, parsed |-> FALSE,
     maxSequenceNumber |-> 0, newMasterSequenceNumber |-> 0,
     numSequenceNumbers |-> 0, numSyncCommitReplicas |-> 0,
     numSyncQueried |-> FALSE, requiredValue |-> 0,
     dbFailoverMode |-> FALSE, i |-> 0, lastErr |-> NoErr, polls |-> <<>>,
     rolePolls |-> 0, sequenceNumber |-> 0, emitted |-> <<>>,
     monitorRole |-> "", dbFailoverQueried |-> FALSE, waitDone |-> FALSE,
     failoverErr |-> NoErr, prechecked |-> FALSE, modeErr |-> NoErr,
     pollErr |-> NoErr, polledRole |-> RoleRESOLVING, setRoleErr |-> NoErr]

IdleConnector == [pc |-> "notStarted", i |-> 0, db |-> 0, err |-> NoErr]

\* var diagnostics Diagnostics
ZeroDiagnostics == [System |-> FALSE, Resource |-> FALSE, QueryProcessing |-> FALSE]

\* db and err of OpenDBWithHealthCheck and doMain; besides them how the select
\* loop ended, how many connector errors it received, the diagnostics read
\* and where the connector was when the timeout case was taken
ZeroMain ==
    [db |-> 0, err |-> NoErr, outcome |-> "", received |-> 0,
     diagnostics |-> ZeroDiagnostics, atDeadline |-> IdleConnector]

NoRet == [code |-> "none", err |-> NoErr]

Running == [status |-> -1, how |-> "running", err |-> NoErr]

\* the process-local part of the state at the start of a process
FreshProcess ==
    /\ pc = "flags"
    /\ flags = DefaultFlags
    /\ ocf = ZeroSlots
    /\ override = NilOverride
    /\ opened = {}
    /\ closed = {}
    /\ connector = IdleConnector
    /\ main = ZeroMain
    /\ loc = ZeroLoc
    /\ trace = <<>>
    /\ ret = NoRet
    /\ exit = Running

RsstcValues == {0, MaxInt32}

\* The instance as far as ag-helper changes it: whether the AG has a row in
\* sys.availability_groups, the local replica's role and the AG's
\* REQUIRED_SYNCHRONIZED_SECONDARIES_TO_COMMIT.  Settings that ag-helper only
\* reads (availability mode, DB_FAILOVER, the number of SYNCHRONOUS_COMMIT
\* replicas, sequence number, database states) are drawn by the query.
\* Without a row for the AG there is no role or RSSTC value to keep.
NoAG == [present |-> FALSE, role |-> RoleRESOLVING, rsstc |-> 0]

Databases ==
    [present : {TRUE}, role : Roles, rsstc : {0, 1}]
    \cup {NoAG}

\* no library function is called on its own
NoLib == [calls |-> <<>>]

\* Nothing before the handler looks at the database, and while a handler runs
\* database_ag and database_role take the database to any of its states: a
\* process starts with the AG not yet created.
Init ==
    /\ FreshProcess
    /\ db = NoAG
    /\ calc = [numReplicas |-> 0, result |-> 0, done |-> FALSE]
    /\ lib = NoLib

\* ----------------------------------------------------------------- exiting
\* mssqlcommon.Exit: os.Exit ends the process at once; deferred calls of
\* doMain (db.Close) do not run
Exit(exitCode, err, how) ==
    /\ pc' = "exited"
    /\ exit' = [status |-> exitCode, how |-> how, err |-> err]

\* mssqlcommon.OcfExit
OcfExit(ocfExitCode, err) ==
    /\ Exit(ocf[ocfExitCode] + 10, err, "ocf")
    /\ ret' = [code |-> ocfExitCode, err |-> err]

\* main: an error returned by doMain ends the process with status 1
mainUnexpected(err) ==
    /\ Exit(1, err, "unexpected")
    /\ ret' = ret

\* ------------------------------------------------------------------ doMain
\* flag.Parse and the checks of the required flags
requiredFlagError(hostname, sqlPort, agName, credentialsFile, applicationName, act, nm) ==
    IF hostname = "" THEN Err("flag", "--hostname")
    ELSE IF sqlPort = 0 THEN Err("flag", "--port")
    ELSE IF agName = "" THEN Err("flag", "--ag-name")
    ELSE IF credentialsFile = "" THEN Err("flag", "--credentials-file")
    ELSE IF applicationName = "" THEN Err("flag", "--application-name")
    ELSE IF act = "" THEN Err("flag", "--action")
    ELSE IF act = "promote" /\ nm = "" THEN Err("flag", "--new-master")
    ELSE NoErr

doMain_flags ==
    /\ pc = "flags"
    /\ \E act \in Actions \cup {"", "status"},
          hostname \in {"", "localhost"}, sqlPort \in {0, 1433},
          agName \in {"", "ag1"}, credentialsFile \in {"", "/var/opt/mssql/secrets/passwd"},
          applicationName \in {"", "monitor-ag1"}, nm \in {"", "n1"} :
          LET err == requiredFlagError(hostname, sqlPort, agName,
                                       credentialsFile, applicationName, act, nm)
          IN  /\ flags' = [flags EXCEPT !.action = act, !.newMaster = nm]
              /\ IF err # NoErr
                 THEN mainUnexpected(err)
                 ELSE /\ pc' = "import"
                      /\ UNCHANGED <<exit, ret>>
    /\ UNCHANGED <<ocf, override, db, opened, closed, connector, main, loc, trace, calc, lib>>

\* doMain_import without the call of ImportOcfExitCodes
doMain_import_skipped ==
    /\ pc = "import"
    /\ \E env \in Environments :
          flags' = [flags EXCEPT !.environ = env, !.imported = TRUE]
    /\ pc' = "afterImport"
    /\ UNCHANGED <<ocf, exit, ret, override, db, opened, closed, connector, main, loc, trace, calc, lib>>

\* err := mssqlcommon.ImportOcfExitCodes(), for every action
doMain_import ==
    /\ pc = "import"
    /\ \E env \in Environments :
          LET r == ImportOcfExitCodes(ocf, env)
          IN  /\ flags' = [flags EXCEPT !.environ = env, !.imported = TRUE]
              /\ ocf' = r.slots
              /\ IF r.err # NoErr
                 THEN mainUnexpected(r.err)
                 ELSE /\ pc' = "afterImport"
                      /\ UNCHANGED <<exit, ret>>
    /\ UNCHANGED <<override, db, opened, closed, connector, main, loc, trace, calc, lib>>

\* doMain_stop that goes on to the connect like the other actions
doMain_stop_connects ==
    /\ pc = "afterImport"
    /\ flags.action = "stop"
    /\ pc' = "credentials"
    /\ UNCHANGED <<flags, ocf, override, db, opened, closed, connector, main, loc, trace, ret, exit, calc, lib>>

\* action "stop": a no-op that never connects
doMain_stop ==
    /\ pc = "afterImport"
    /\ flags.action = "stop"
    /\ OcfExit("OCF_SUCCESS", NoErr)
    /\ UNCHANGED <<flags, ocf, override, db, opened, closed, connector, main, loc, trace, calc, lib>>

\* values of --required-synchronized-secondaries-to-commit
Dec(neg, digits) == [neg |-> neg, digits |-> digits]

RsstcArgs ==
    {Dec(TRUE, <<"2">>), Dec(TRUE, <<"1">>), Dec(FALSE, OverInt32Text)}
    \cup {Dec(FALSE, DecText(v)) : v \in RsstcValues}

IsMinusOne(a) == a.neg /\ StripZeros(a.digits) = <<"1">>

IsNegative(a) == a.neg /\ StripZeros(a.digits) # <<"0">>

\* rsstcArgOutOfRange without the lower limit
rsstcArgOutOfRange_noLower(a) == DecGreater(a.digits, MaxInt32Text)

\* requiredSynchronizedSecondariesToCommitArg < 0 || ... > math.MaxInt32
rsstcArgOutOfRange(a) == IsNegative(a) \/ DecGreater(a.digits, MaxInt32Text)

doMain_rsstcArg ==
    /\ pc = "afterImport"
    /\ flags.action # "stop"
    /\ \E a \in RsstcArgs :
          /\ flags' = [flags EXCEPT !.rsstcArg = a]
          /\ IF IsMinusOne(a)
             THEN /\ override' = NilOverride
                  /\ pc' = "credentials"
                  /\ UNCHANGED <<exit, ret>>
             ELSE IF rsstcArgOutOfRange(a)
             THEN /\ override' = override
                  /\ OcfExit("OCF_ERR_CONFIGURED", Err("flag", "--required-synchronized-secondaries-to-commit"))
             ELSE /\ override' = [set |-> TRUE, v |-> DecValue(StripZeros(a.digits))]
                  /\ pc' = "credentials"
                  /\ UNCHANGED <<exit, ret>>
    /\ UNCHANGED <<ocf, db, opened, closed, connector, main, loc, trace, calc, lib>>

\* ReadCredentialsFile succeeds or fails; on success OpenDBWithHealthCheck
\* starts the connector goroutine and enters its select loop
doMain_credentials ==
    /\ pc = "credentials"
    /\ trace' = Append(trace, "ReadCredentialsFile")
    /\ \E ok \in BOOLEAN :
          IF ok
          THEN /\ pc' = "select"
               /\ connector' = [IdleConnector EXCEPT !.pc = "attempt", !.i = 1]
               /\ UNCHANGED <<exit, ret>>
          ELSE /\ connector' = connector
               /\ OcfExit("OCF_ERR_ARGS", Err("credentials", "ReadCredentialsFile"))
    /\ UNCHANGED <<flags, ocf, override, db, opened, closed, main, loc, calc, lib>>

\* --------------------------------------------------- OpenDBWithHealthCheck
\* The connector goroutine.  One attempt: close the previous connection if
\* there is one, OpenDB, and then offer the connection on dbChannel or the
\* error on errChannel.  Both channels are unbuffered, so the offer stays
\* pending until the main flow receives it.  A connection is named by its
\* rank among the connections the process has opened.
connector_attempt ==
    /\ pc # "exited"
    /\ connector.pc = "attempt"
    /\ connector.i <= MaxAttempts
    /\ closed' = IF connector.db # 0 THEN closed \cup {connector.db} ELSE closed
    /\ \E ok \in BOOLEAN :
          IF ok
          THEN /\ opened' = opened \cup {Cardinality(opened) + 1}
               /\ connector' = [connector EXCEPT !.pc = "sendDb",
                                                 !.db = Cardinality(opened) + 1,
                                                 !.err = NoErr]
          ELSE /\ opened' = opened
               /\ connector' = [connector EXCEPT !.pc = "sendErr", !.db = 0,
                                   !.err = ServerUnhealthyError(ServerDownOrUnresponsive,
                                                                DecText(connector.i))]
    /\ UNCHANGED <<pc, flags, ocf, override, db, main, loc, trace, ret, exit, calc, lib>>

\* a connector that goes on to its next attempt while its error is still on
\* offer
connector_sleep_unreceived ==
    /\ pc # "exited"
    /\ connector.pc \in {"sleep", "sendErr"}
    /\ connector' = [connector EXCEPT !.pc = "attempt", !.i = connector.i + 1]
    /\ UNCHANGED <<pc, flags, ocf, override, db, opened, closed, main, loc, trace, ret, exit, calc, lib>>

\* time.Sleep(1 * time.Second), then the next attempt
connector_sleep ==
    /\ pc # "exited"
    /\ connector.pc = "sleep"
    /\ connector' = [connector EXCEPT !.pc = "attempt", !.i = connector.i + 1]
    /\ UNCHANGED <<pc, flags, ocf, override, db, opened, closed, main, loc, trace, ret, exit, calc, lib>>

\* Diagnose that finds every server healthy
Diagnose_alwaysHealthy(diagnostics) == NoErr

\* Diagnose that looks at the resource component first
Diagnose_resourceFirst(diagnostics) ==
    IF ~diagnostics.Resource
    THEN ServerUnhealthyError(ServerModerateError, "resource error")
    ELSE IF ~diagnostics.System
    THEN ServerUnhealthyError(ServerCriticalError, "system error")
    ELSE IF ~diagnostics.QueryProcessing
    THEN ServerUnhealthyError(ServerAnyQualifiedError, "query processing error")
    ELSE NoErr

Diagnose(diagnostics) ==
    IF ~diagnostics.System
    THEN ServerUnhealthyError(ServerCriticalError, "system error")
    ELSE IF ~diagnostics.Resource
    THEN ServerUnhealthyError(ServerModerateError, "resource error")
    ELSE IF ~diagnostics.QueryProcessing
    THEN ServerUnhealthyError(ServerAnyQualifiedError, "query processing error")
    ELSE NoErr

DiagnosticsValues == [System : BOOLEAN, Resource : BOOLEAN, QueryProcessing : BOOLEAN]

\* select case db = <-dbChannel: QueryDiagnostics, Diagnose, return
main_recvDb ==
    /\ pc = "select"
    /\ connector.pc = "sendDb"
    /\ connector' = [IdleConnector EXCEPT !.pc = "returned"]
    /\ trace' = Append(trace, "sp_server_diagnostics")
    /\ \/ /\ closed' = closed \cup {connector.db}
          /\ main' = [main EXCEPT !.db = 0, !.err = Err("query", "QueryDiagnostics"),
                                  !.outcome = "query failed"]
       \/ /\ closed' = closed
          /\ \E d \in DiagnosticsValues :
                main' = [main EXCEPT !.db = connector.db, !.err = Diagnose(d),
                                     !.outcome = "diagnosed", !.diagnostics = d]
    /\ pc' = "health"
    /\ UNCHANGED <<flags, ocf, override, db, opened, loc, ret, exit, calc, lib>>

\* a receive of the connector's error that is still there after the select
\* loop has ended
main_recvErr_late ==
    /\ pc \in {"select", "health", "session"}
    /\ connector.pc = "sendErr"
    /\ connector' = [connector EXCEPT !.pc = "sleep"]
    /\ main' = [main EXCEPT !.err = connector.err, !.received = main.received + 1]
    /\ UNCHANGED <<pc, flags, ocf, override, db, opened, closed, loc, trace, ret, exit, calc, lib>>

\* select case err = <-errChannel: remember the latest error
main_recvErr ==
    /\ pc = "select"
    /\ connector.pc = "sendErr"
    /\ connector' = [connector EXCEPT !.pc = "sleep"]
    /\ main' = [main EXCEPT !.err = connector.err, !.received = main.received + 1]
    /\ UNCHANGED <<pc, flags, ocf, override, db, opened, closed, loc, trace, ret, exit, calc, lib>>

\* timeoutError that always constructs the error
timeoutError_constructed(err) ==
    ServerUnhealthyError(ServerDownOrUnresponsive, "timed out")

\* the error returned on the timeout: the stored one, or a constructed
\* ServerDownOrUnresponsive error if none was stored
timeoutError(err) ==
    IF err = NoErr
    THEN ServerUnhealthyError(ServerDownOrUnresponsive, "timed out")
    ELSE err

\* select case <-timeoutChannel
main_timeout ==
    /\ pc = "select"
    /\ main' = [main EXCEPT !.err = timeoutError(main.err), !.outcome = "timed out",
                            !.atDeadline = connector]
    /\ pc' = "health"
    /\ UNCHANGED <<flags, ocf, override, db, opened, closed, connector, loc, trace, ret, exit, calc, lib>>

\* ------------------------------------------------- doMain after the connect
HealthThresholds == {0, ServerDownOrUnresponsive, ServerCriticalError,
                     ServerModerateError, ServerAnyQualifiedError}

\* atOrBelowThreshold with a strict comparison
atOrBelowThreshold_strict(rawValue, healthThreshold) == rawValue < healthThreshold

\* serverUnhealthyError.RawValue <= healthThreshold
atOrBelowThreshold(rawValue, healthThreshold) == rawValue <= healthThreshold

\* the check of the error of OpenDBWithHealthCheck; --health-threshold is
\* read only when that error is a ServerUnhealthyError
doMain_health ==
    /\ pc = "health"
    /\ IF main.err = NoErr
       THEN /\ pc' = "session"
            /\ UNCHANGED <<flags, exit, ret>>
       ELSE IF main.err.kind = "ServerUnhealthy"
       THEN \E threshold \in HealthThresholds :
               /\ flags' = [flags EXCEPT !.healthThreshold = threshold]
               /\ IF atOrBelowThreshold(main.err.sev, threshold)
                  THEN OcfExit("OCF_ERR_GENERIC", main.err)
                  ELSE /\ pc' = "session"
                       /\ UNCHANGED <<exit, ret>>
       ELSE /\ flags' = flags
            /\ mainUnexpected(main.err)
    /\ UNCHANGED <<ocf, override, db, opened, closed, connector, main, loc, trace, calc, lib>>

\* doMain_session that goes to the handlers without the statement
doMain_session_skipped ==
    /\ pc = "session"
    /\ main.db # 0
    /\ pc' = "dispatch"
    /\ UNCHANGED <<flags, ocf, override, db, opened, closed, connector, main, loc,
                   trace, ret, exit, calc, lib>>

\* defer db.Close(); db.Exec(sp_set_session_context ...).  With a nil db the
\* Exec dereferences a nil pointer: the process panics and ends with status 2.
\* The Exec overwrites err, and healthThreshold is not read again: from here
\* on the state keeps neither, nor what it noted about the connect.
doMain_session ==
    /\ pc = "session"
    /\ IF main.db = 0
       THEN /\ Exit(2, Err("panic", "nil db"), "panic")
            /\ UNCHANGED <<flags, main, trace, ret>>
       ELSE /\ trace' = Append(trace, "sp_set_session_context")
            /\ flags' = [flags EXCEPT !.healthThreshold = DefaultFlags.healthThreshold]
            /\ \/ /\ main' = [ZeroMain EXCEPT !.db = main.db]
                  /\ pc' = "dispatch"
                  /\ UNCHANGED <<exit, ret>>
               \/ /\ main' = [ZeroMain EXCEPT !.db = main.db,
                                               !.err = Err("exec", "sp_set_session_context")]
                  /\ OcfExit("OCF_ERR_GENERIC", Err("exec", "sp_set_session_context"))
    /\ UNCHANGED <<ocf, override, db, opened, closed, connector, loc, calc, lib>>

\* switch action
doMain_dispatch ==
    /\ pc = "dispatch"
    /\ CASE flags.action = "start" ->
              /\ pc' = "start"
              /\ loc' = [ZeroLoc EXCEPT !.caller = "start"]
              /\ UNCHANGED <<flags, closed, exit, ret>>
         [] flags.action = "monitor" ->
              /\ pc' = "monitor"
              /\ loc' = [ZeroLoc EXCEPT !.caller = "monitor"]
              /\ UNCHANGED <<flags, closed, exit, ret>>
         [] flags.action = "pre-start" ->
              /\ pc' = "isPrimary"
              /\ loc' = [ZeroLoc EXCEPT !.caller = "preStart"]
              /\ UNCHANGED <<flags, closed, exit, ret>>
         [] flags.action = "post-stop" ->
              /\ pc' = "isPrimary"
              /\ loc' = [ZeroLoc EXCEPT !.caller = "postStop"]
              /\ UNCHANGED <<flags, closed, exit, ret>>
         [] flags.action = "pre-promote" ->
              /\ pc' = "prePromote"
              /\ loc' = [ZeroLoc EXCEPT !.caller = "prePromote"]
              /\ UNCHANGED <<flags, closed, exit, ret>>
         [] flags.action = "promote" ->
              /\ pc' = "isPrimary"
              /\ loc' = [ZeroLoc EXCEPT !.caller = "promote"]
              /\ UNCHANGED <<flags, closed, exit, ret>>
         [] flags.action = "demote" ->
              /\ pc' = "demote"
              /\ loc' = [ZeroLoc EXCEPT !.caller = "demote"]
              /\ UNCHANGED <<flags, closed, exit, ret>>
         [] OTHER ->
              \* doMain returns the error, so its deferred db.Close() runs
              /\ closed' = closed \cup {main.db}
              /\ mainUnexpected(Err("flag", "unknown value for --action"))
              /\ UNCHANGED <<flags, loc>>
    /\ UNCHANGED <<ocf, override, db, opened, connector, main, trace, calc, lib>>

\* a handler returns (ocfExitCode, err) to doMain, which ends with
\* return mssqlcommon.OcfExit(stderr, ocfExitCode, err)
Return(code, err) == OcfExit(code, err)

\* ------------------------------------------------------------ mssqlcommon/ag
ErrNoRows == Err("sql.ErrNoRows", "sql")

QueryErr(stmt) == Err("query", stmt)

\* fmt.Errorf("...: %s", err)
Wrap(msg, inner) == [kind |-> msg, sev |-> inner.sev, src |-> inner.src]

\* GetRole: the local replica's role, sql.ErrNoRows without an AG row, or
\* another error of the query
GetRole ==
    (IF db.present THEN {[role |-> db.role, err |-> NoErr]}
     ELSE {[role |-> RoleRESOLVING, err |-> ErrNoRows]})
    \cup {[role |-> RoleRESOLVING, err |-> QueryErr("GetRole")]}

\* GetAvailabilityMode: the availability mode of the local replica
GetAvailabilityMode ==
    (IF db.present
     THEN {[availabilityMode |-> m, err |-> NoErr] : m \in AvailabilityModes}
     ELSE {[availabilityMode |-> AmASYNCHRONOUS_COMMIT, err |-> ErrNoRows]})
    \cup {[availabilityMode |-> AmASYNCHRONOUS_COMMIT, err |-> QueryErr("GetAvailabilityMode")]}

GetDBFailoverMode ==
    (IF db.present THEN {[dbFailoverMode |-> b, err |-> NoErr] : b \in BOOLEAN}
     ELSE {[dbFailoverMode |-> FALSE, err |-> ErrNoRows]})
    \cup {[dbFailoverMode |-> FALSE, err |-> QueryErr("GetDBFailoverMode")]}

\* SELECT COUNT(*) always yields a row
GetNumSyncCommitReplicas ==
    {[numReplicas |-> IF db.present THEN n ELSE 0, err |-> NoErr] : n \in 0..MaxSync}
    \cup {[numReplicas |-> 0, err |-> QueryErr("GetNumSyncCommitReplicas")]}

GetSequenceNumber ==
    (IF db.present THEN {[sequenceNumber |-> n, err |-> NoErr] : n \in SequenceNumbers}
     ELSE {[sequenceNumber |-> 0, err |-> ErrNoRows]})
    \cup {[sequenceNumber |-> 0, err |-> QueryErr("GetSequenceNumber")]}

\* GetDatabaseStates: the summary of the databases that are not ONLINE
\* (empty when all are), or an error
DatabaseSummaries == {"", "1 databases are RECOVERING", "1 databases are SUSPECT"}

GetDatabaseStates ==
    {[result |-> m, err |-> NoErr] : m \in DatabaseSummaries}
    \cup {[result |-> "", err |-> QueryErr("GetDatabaseStates")]}

\* Failover: ALTER AVAILABILITY GROUP ... FAILOVER.  The statement returns
\* before the role change has finished.
Failover(err) ==
    /\ trace' = Append(trace, "FAILOVER")
    /\ IF err = NoErr
       THEN /\ db.present
            /\ \E r \in {RoleRESOLVING, RolePRIMARY} : db' = [db EXCEPT !.role = r]
       ELSE db' = db

\* SetRoleToSecondary: ALTER AVAILABILITY GROUP ... SET (ROLE = SECONDARY).
\* With a single replica in the AG the statement fails and the replica
\* becomes primary.
SetRoleToSecondary(err) ==
    /\ trace' = Append(trace, "SET ROLE SECONDARY")
    /\ IF err = NoErr
       THEN /\ db.present
            /\ \E r \in {RoleRESOLVING, RoleSECONDARY} : db' = [db EXCEPT !.role = r]
       ELSE \E r \in {db.role, RolePRIMARY} :
               db' = [db EXCEPT !.role = IF db.present THEN r ELSE db.role]

\* SetRequiredSynchronizedSecondariesToCommit that runs the ALTER whatever
\* the AG row holds
SetRequiredSynchronizedSecondariesToCommit_always(newValue, err) ==
    /\ trace' = trace \o <<"EXEC RSSTC", "ALTER RSSTC">>
    /\ IF err = NoErr
       THEN /\ db.present
            /\ db' = [db EXCEPT !.rsstc = newValue]
       ELSE db' = db

\* SetRequiredSynchronizedSecondariesToCommit: one batch that counts the AG
\* rows with this name and this value and runs the ALTER only if there is none
SetRequiredSynchronizedSecondariesToCommit(newValue, err) ==
    LET num_ags == IF db.present /\ db.rsstc = newValue THEN 1 ELSE 0
    IN  IF num_ags = 0
        THEN /\ trace' = trace \o <<"EXEC RSSTC", "ALTER RSSTC">>
             /\ IF err = NoErr
                THEN /\ db.present
                     /\ db' = [db EXCEPT !.rsstc = newValue]
                ELSE db' = db
        ELSE /\ trace' = Append(trace, "EXEC RSSTC")
             /\ db' = db

ExecErrs(stmt) == {NoErr, Err("exec", stmt)}

\* ------------------------------------------------------------------ helpers
\* isPrimaryResult that never finds the replica primary
isPrimaryResult_never(role) == FALSE

\* result = role == mssqlag.RolePRIMARY
isPrimaryResult(role) == role = RolePRIMARY

\* isPrimary, called first by preStart, postStop and promote
isPrimary ==
    /\ pc = "isPrimary"
    /\ trace' = Append(trace, "GetRole")
    /\ \E r \in GetRole :
          IF r.err # NoErr
          THEN /\ loc' = loc
               /\ Return("OCF_ERR_GENERIC",
                         Wrap("Could not check if local replica is in PRIMARY role", r.err))
          ELSE /\ loc' = [loc EXCEPT !.role = r.role, !.roleQueried = TRUE,
                                     !.isPrimary = isPrimaryResult(r.role)]
               /\ IF isPrimaryResult(r.role)
                  THEN IF loc.caller = "promote"
                       THEN Return("OCF_SUCCESS", NoErr)
                       ELSE /\ pc' = IF override.set THEN "setRSSTC" ELSE "calculateRSSTC"
                            /\ UNCHANGED <<ret, exit>>
                  ELSE IF loc.caller = "promote"
                       THEN /\ pc' = "promote_precheck"
                            /\ UNCHANGED <<ret, exit>>
                       ELSE Return("OCF_SUCCESS", NoErr)
    /\ UNCHANGED <<flags, ocf, override, db, opened, closed, connector, main, calc, lib>>

\* calculateAndSetRequiredSynchronizedSecondariesToCommit, up to the set
calculateAndSetRequiredSynchronizedSecondariesToCommit ==
    /\ pc = "calculateRSSTC"
    /\ trace' = Append(trace, "GetNumSyncCommitReplicas")
    /\ \E r \in GetNumSyncCommitReplicas :
          IF r.err # NoErr
          THEN /\ loc' = loc
               /\ Return("OCF_ERR_GENERIC",
                         Wrap("Could not calculate and set value of REQUIRED_SYNCHRONIZED_SECONDARIES_TO_COMMIT", r.err))
          ELSE /\ loc' = [loc EXCEPT !.numSyncCommitReplicas = r.numReplicas,
                                     !.numSyncQueried = TRUE,
                                     !.requiredValue =
                                        calculateRequiredSynchronizedSecondariesToCommit(r.numReplicas)]
               /\ pc' = "setRSSTC"
               /\ UNCHANGED <<ret, exit>>
    /\ UNCHANGED <<flags, ocf, override, db, opened, closed, connector, main, calc, lib>>

\* RequiredValue that passes the calculated value whatever the operator gave
RequiredValue_calculated == loc.requiredValue

\* the value the set is called with: the override, or the value calculated
\* (monitor, preStart, postStop) or fixed before the failover (promote)
RequiredValue ==
    IF override.set THEN override.v ELSE loc.requiredValue

\* setSucceededCode with the code of monitor for every caller
setSucceededCode_runningMaster(caller) == "OCF_RUNNING_MASTER"

\* what the caller returns after the RSSTC statement succeeded
setSucceededCode(caller) ==
    IF caller \in {"monitor", "start"} THEN "OCF_RUNNING_MASTER" ELSE "OCF_SUCCESS"

\* setRequiredSynchronizedSecondariesToCommit and the caller's return
setRequiredSynchronizedSecondariesToCommit ==
    /\ pc = "setRSSTC"
    /\ \E err \in ExecErrs("SetRequiredSynchronizedSecondariesToCommit") :
          /\ SetRequiredSynchronizedSecondariesToCommit(RequiredValue, err)
          /\ IF err # NoErr
             THEN Return("OCF_ERR_GENERIC",
                         Wrap(IF override.set \/ loc.caller = "promote"
                              THEN "Could not set value of REQUIRED_SYNCHRONIZED_SECONDARIES_TO_COMMIT"
                              ELSE "Could not calculate and set value of REQUIRED_SYNCHRONIZED_SECONDARIES_TO_COMMIT",
                              err))
             ELSE Return(setSucceededCode(loc.caller), NoErr)
    /\ UNCHANGED <<flags, ocf, override, opened, closed, connector, main, loc, calc, lib>>

\* one round of the loop of waitUntilRoleSatisfies: the role is queried and
\* r is the answer
waitUntilRoleSatisfies(r) ==
    /\ loc.rolePolls < MaxPolls
    /\ trace' = Append(trace, "GetRole")
    /\ loc' = [loc EXCEPT !.rolePolls = loc.rolePolls + 1,
                          !.role = IF r.err = NoErr THEN r.role ELSE loc.role,
                          !.polledRole = IF r.err = NoErr THEN r.role ELSE loc.polledRole,
                          !.roleQueried = TRUE, !.pollErr = r.err]

\* ------------------------------------------------------------------- start
\* _ = mssqlag.SetRoleToSecondary(db, agName): the result is dropped, the
\* state keeps it only to tell the runs apart
start ==
    /\ pc = "start"
    /\ \E err \in ExecErrs("SetRoleToSecondary") :
          /\ SetRoleToSecondary(err)
          /\ loc' = [loc EXCEPT !.setRoleErr = err]
    /\ pc' = "start_wait"
    /\ UNCHANGED <<flags, ocf, override, opened, closed, connector, main, ret, exit, calc, lib>>

\* startWaitErrorCode that does not tell sql.ErrNoRows from other errors
startWaitErrorCode_generic(err) == "OCF_ERR_GENERIC"

\* the code start returns on an error of waitUntilRoleSatisfies
startWaitErrorCode(err) ==
    IF err = ErrNoRows THEN "OCF_ERR_ARGS" ELSE "OCF_ERR_GENERIC"

\* startPredicate that is content with any role
startPredicate_any(role) == TRUE

\* the predicate start waits for: func(role) bool { return role != RoleRESOLVING }
startPredicate(role) == role # RoleRESOLVING

start_wait ==
    /\ pc = "start_wait"
    /\ \E r \in GetRole :
          /\ waitUntilRoleSatisfies(r)
          /\ IF r.err = ErrNoRows
             THEN Return(startWaitErrorCode(r.err),
                         Err("sys.availability_groups does not contain a row for the AG", "start"))
             ELSE IF r.err # NoErr
             THEN Return(startWaitErrorCode(r.err),
                         Wrap("Failed while waiting for local replica to be in SECONDARY role", r.err))
             ELSE /\ pc' = IF startPredicate(r.role) THEN "monitor" ELSE "start_wait"
                  /\ UNCHANGED <<ret, exit>>
    /\ UNCHANGED <<flags, ocf, override, db, opened, closed, connector, main, calc, lib>>

\* ----------------------------------------------------------------- monitor
\* monitorRoleBranch with the codes of RESOLVING and SECONDARY exchanged
monitorRoleBranch_swapped(role) ==
    IF role = RolePRIMARY THEN "primary"
    ELSE IF role = RoleRESOLVING THEN "OCF_SUCCESS"
    ELSE "OCF_NOT_RUNNING"

\* monitorRoleBranch that takes the branch of a primary whatever the role
monitorRoleBranch_alwaysPrimary(role) == "primary"

\* the branch monitor takes on the role it read
monitorRoleBranch(role) ==
    IF role = RolePRIMARY THEN "primary"
    ELSE IF role = RoleRESOLVING THEN "OCF_NOT_RUNNING"
    ELSE "OCF_SUCCESS"

monitor ==
    /\ pc = "monitor"
    /\ trace' = Append(trace, "GetRole")
    /\ \E r \in GetRole :
          IF r.err = ErrNoRows
          THEN /\ loc' = [loc EXCEPT !.monitorRole = "missing"]
               /\ Return("OCF_NOT_RUNNING", NoErr)
          ELSE IF r.err # NoErr
          THEN /\ loc' = [loc EXCEPT !.monitorRole = "error"]
               /\ Return("OCF_ERR_GENERIC", Wrap("Could not query replica role", r.err))
          ELSE /\ loc' = [loc EXCEPT !.role = r.role, !.roleQueried = TRUE,
                                     !.monitorRole = "found"]
               /\ IF monitorRoleBranch(r.role) = "primary"
                  THEN /\ pc' = "monitor_dbFailover"
                       /\ UNCHANGED <<ret, exit>>
                  ELSE Return(monitorRoleBranch(r.role), NoErr)
    /\ UNCHANGED <<flags, ocf, override, db, opened, closed, connector, main, calc, lib>>

\* GetDBFailoverMode; --online-databases-retries is read when the wait starts
monitor_dbFailover ==
    /\ pc = "monitor_dbFailover"
    /\ trace' = Append(trace, "GetDBFailoverMode")
    /\ \E r \in GetDBFailoverMode :
          IF r.err # NoErr
          THEN /\ UNCHANGED <<loc, flags>>
               /\ Return("OCF_ERR_GENERIC", Wrap("Could not query DB_FAILOVER setting", r.err))
          ELSE /\ loc' = [loc EXCEPT !.dbFailoverMode = r.dbFailoverMode,
                                     !.dbFailoverQueried = TRUE]
               /\ UNCHANGED <<ret, exit>>
               /\ IF r.dbFailoverMode
                  THEN /\ pc' = "waitOnline"
                       /\ \E n \in 0..MaxRetries :
                             flags' = [flags EXCEPT !.numRetriesForOnlineDatabases = n]
                  ELSE /\ pc' = IF override.set THEN "setRSSTC" ELSE "calculateRSSTC"
                       /\ flags' = flags
    /\ UNCHANGED <<ocf, override, db, opened, closed, connector, main, calc, lib>>

\* waitForDatabasesToBeOnline: one round of the loop, i < numRetries
waitForDatabasesToBeOnline ==
    /\ pc = "waitOnline"
    /\ loc.i < flags.numRetriesForOnlineDatabases
    /\ trace' = Append(trace, "GetDatabaseStates")
    /\ \E r \in GetDatabaseStates :
          IF r.err # NoErr
          THEN /\ loc' = [loc EXCEPT !.lastErr = r.err, !.i = loc.i + 1,
                                     !.polls = Append(loc.polls, r)]
               /\ pc' = pc
          ELSE IF r.result # ""
          THEN /\ loc' = [loc EXCEPT !.lastErr = Err("errors.New", r.result),
                                     !.i = loc.i + 1, !.polls = Append(loc.polls, r)]
               /\ pc' = pc
          ELSE /\ loc' = [loc EXCEPT !.polls = Append(loc.polls, r), !.waitDone = TRUE]
               /\ pc' = IF override.set THEN "setRSSTC" ELSE "calculateRSSTC"
    /\ UNCHANGED <<flags, ocf, override, db, opened, closed, connector, main, ret, exit, calc, lib>>

\* waitForDatabasesToBeOnline: the loop ends, return lastErr
waitForDatabasesToBeOnline_end ==
    /\ pc = "waitOnline"
    /\ loc.i >= flags.numRetriesForOnlineDatabases
    /\ loc' = [loc EXCEPT !.waitDone = TRUE]
    /\ IF loc.lastErr # NoErr
       THEN Return("OCF_ERR_GENERIC",
                   Wrap("Failed while waiting for databases to be online", loc.lastErr))
       ELSE /\ pc' = IF override.set THEN "setRSSTC" ELSE "calculateRSSTC"
            /\ UNCHANGED <<ret, exit>>
    /\ UNCHANGED <<flags, ocf, override, db, opened, closed, connector, main, trace, calc, lib>>

\* -------------------------------------------------------------- prePromote
\* hasSequenceNumber for SYNCHRONOUS_COMMIT only
hasSequenceNumber_syncOnly(availabilityMode) ==
    availabilityMode = AmSYNCHRONOUS_COMMIT

\* availabilityMode == AmSYNCHRONOUS_COMMIT || availabilityMode == AmCONFIGURATION_ONLY
hasSequenceNumber(availabilityMode) ==
    availabilityMode \in {AmSYNCHRONOUS_COMMIT, AmCONFIGURATION_ONLY}

prePromote ==
    /\ pc = "prePromote"
    /\ trace' = Append(trace, "GetAvailabilityMode")
    /\ \E r \in GetAvailabilityMode :
          IF r.err # NoErr
          THEN /\ loc' = loc
               /\ Return("OCF_ERR_GENERIC",
                         Wrap("Could not query availability mode of local replica", r.err))
          ELSE IF hasSequenceNumber(r.availabilityMode)
          THEN /\ loc' = [loc EXCEPT !.availabilityMode = r.availabilityMode,
                                     !.modeQueried = TRUE]
               /\ pc' = "prePromote_sequenceNumber"
               /\ UNCHANGED <<ret, exit>>
          ELSE /\ loc' = [loc EXCEPT !.availabilityMode = r.availabilityMode,
                                     !.modeQueried = TRUE, !.sequenceNumber = 0,
                                     !.emitted = Append(loc.emitted, 0)]
               /\ Return("OCF_SUCCESS", NoErr)
    /\ UNCHANGED <<flags, ocf, override, db, opened, closed, connector, main, calc, lib>>

prePromote_sequenceNumber ==
    /\ pc = "prePromote_sequenceNumber"
    /\ trace' = Append(trace, "GetSequenceNumber")
    /\ \E r \in GetSequenceNumber :
          IF r.err # NoErr
          THEN /\ loc' = loc
               /\ Return("OCF_ERR_GENERIC",
                         Wrap("Could not query sequence number of local replica", r.err))
          ELSE /\ loc' = [loc EXCEPT !.sequenceNumber = r.sequenceNumber,
                                     !.emitted = Append(loc.emitted, r.sequenceNumber)]
               /\ Return("OCF_SUCCESS", NoErr)
    /\ UNCHANGED <<flags, ocf, override, db, opened, closed, connector, main, calc, lib>>

\* ------------------------------------------------------------------ demote
\* demoteCode that drops the error like start does
demoteCode_ignored(err) == "OCF_SUCCESS"

\* the code demote returns on the result of SetRoleToSecondary
demoteCode(err) == IF err # NoErr THEN "OCF_ERR_GENERIC" ELSE "OCF_SUCCESS"

demote ==
    /\ pc = "demote"
    /\ \E err \in ExecErrs("SetRoleToSecondary") :
          /\ SetRoleToSecondary(err)
          /\ Return(demoteCode(err),
                    IF err # NoErr
                    THEN Wrap("Could not set local replica to SECONDARY role", err)
                    ELSE NoErr)
    /\ UNCHANGED <<flags, ocf, override, opened, closed, connector, main, loc, calc, lib>>

\* ----------------------------------------------------------------- promote
\* precheckPasses that turns away ASYNCHRONOUS_COMMIT only
precheckPasses_notAsync(availabilityMode) == availabilityMode # AmASYNCHRONOUS_COMMIT

\* availabilityMode == mssqlag.AmSYNCHRONOUS_COMMIT
precheckPasses(availabilityMode) == availabilityMode = AmSYNCHRONOUS_COMMIT

\* sequenceNumberCheck without the comparison with the max sequence number
sequenceNumberCheck_noMax(newMasterSequenceNumber, maxSequenceNumber) ==
    IF newMasterSequenceNumber = 0 THEN "sequence number 0" ELSE "ok"

\* sequenceNumberCheck without the check for sequence number 0
sequenceNumberCheck_noZero(newMasterSequenceNumber, maxSequenceNumber) ==
    IF newMasterSequenceNumber < maxSequenceNumber THEN "max sequence number"
    ELSE "ok"

\* the two checks after the loop over the lines, in the code's order
sequenceNumberCheck(newMasterSequenceNumber, maxSequenceNumber) ==
    IF newMasterSequenceNumber < maxSequenceNumber THEN "max sequence number"
    ELSE IF newMasterSequenceNumber = 0 THEN "sequence number 0"
    ELSE "ok"

\* quorumMissing that lets one missing sequence number pass
quorumMissing_offByOne(numSequenceNumbers, numSyncCommitReplicas, requiredValue) ==
    UintLess(numSequenceNumbers + 1, UintSub(numSyncCommitReplicas, requiredValue))

\* quorumMissing that is content with any number of sequence numbers
quorumMissing_never(numSequenceNumbers, numSyncCommitReplicas, requiredValue) == FALSE

\* numSequenceNumbers < numSyncCommitReplicas - requiredValue
quorumMissing(numSequenceNumbers, numSyncCommitReplicas, requiredValue) ==
    UintLess(numSequenceNumbers, UintSub(numSyncCommitReplicas, requiredValue))

\* failoverFailedCode as for the failures before the FAILOVER
failoverFailedCode_generic == "OCF_ERR_GENERIC"

\* the code promote returns when the FAILOVER or the wait after it fails
failoverFailedCode == "OCF_FAILED_MASTER"

\* the pre-check of the availability mode, unless --skip-precheck
promote_precheck ==
    /\ pc = "promote_precheck"
    /\ \E skip \in BOOLEAN :
       /\ flags' = [flags EXCEPT !.skipPreCheck = skip]
       /\ IF skip
          THEN /\ pc' = "promote_verify"
               /\ loc' = [loc EXCEPT !.prechecked = TRUE]
               /\ UNCHANGED <<trace, ret, exit>>
          ELSE /\ trace' = Append(trace, "GetAvailabilityMode")
               /\ \E r \in GetAvailabilityMode :
                     IF r.err # NoErr
                     THEN /\ loc' = [loc EXCEPT !.modeQueried = TRUE, !.prechecked = TRUE,
                                                !.modeErr = r.err]
                          /\ Return("OCF_ERR_GENERIC",
                                    Wrap("Could not query availability mode of local replica", r.err))
                     ELSE /\ loc' = [loc EXCEPT !.availabilityMode = r.availabilityMode,
                                                !.modeQueried = TRUE, !.prechecked = TRUE]
                          /\ IF precheckPasses(r.availabilityMode)
                             THEN /\ pc' = "promote_verify"
                                  /\ UNCHANGED <<ret, exit>>
                             ELSE Return("OCF_ERR_GENERIC",
                                         Err("Local replica cannot be promoted to PRIMARY", "availabilityMode"))
    /\ UNCHANGED <<ocf, override, db, opened, closed, connector, main, calc, lib>>

\* the loop over the sequence-number lines and the two checks after it
promote_verify ==
    /\ pc = "promote_verify"
    /\ \E lines \in SequenceNumberInputs :
       LET p == parseSequenceNumbers(lines, flags.newMaster, ParseStart)
       IN  /\ flags' = [flags EXCEPT !.sequenceNumbers = lines]
           /\ loc' = [loc EXCEPT !.parsed = TRUE,
                                 !.maxSequenceNumber = p.maxSequenceNumber,
                                 !.newMasterSequenceNumber = p.newMasterSequenceNumber,
                                 !.numSequenceNumbers = p.numSequenceNumbers]
           /\ IF p.err
              THEN Return("OCF_ERR_GENERIC", Err("Could not parse sequence number line", "ParseInt"))
              ELSE IF sequenceNumberCheck(p.newMasterSequenceNumber, p.maxSequenceNumber) # "ok"
              THEN Return("OCF_ERR_GENERIC",
                          Err("Local replica cannot be promoted",
                              sequenceNumberCheck(p.newMasterSequenceNumber, p.maxSequenceNumber)))
              ELSE /\ pc' = "promote_numSync"
                   /\ UNCHANGED <<ret, exit>>
    /\ UNCHANGED <<ocf, override, db, opened, closed, connector, main, trace, calc, lib>>

\* GetNumSyncCommitReplicas, the required value and the quorum check
promote_numSync ==
    /\ pc = "promote_numSync"
    /\ trace' = Append(trace, "GetNumSyncCommitReplicas")
    /\ \E r \in GetNumSyncCommitReplicas :
          IF r.err # NoErr
          THEN /\ loc' = loc
               /\ Return("OCF_ERR_GENERIC",
                         Wrap("Could not query number of SYNCHRONOUS_COMMIT replicas", r.err))
          ELSE LET requiredValue ==
                       IF ~override.set
                       THEN calculateRequiredSynchronizedSecondariesToCommit(r.numReplicas)
                       ELSE override.v
               IN  /\ loc' = [loc EXCEPT !.numSyncCommitReplicas = r.numReplicas,
                                         !.numSyncQueried = TRUE,
                                         !.requiredValue = requiredValue]
                   /\ IF quorumMissing(loc.numSequenceNumbers, r.numReplicas, requiredValue)
                      THEN Return("OCF_ERR_GENERIC",
                                  Err("Not enough replicas are online to safely promote the local replica", "quorum"))
                      ELSE /\ pc' = "promote_failover"
                           /\ UNCHANGED <<ret, exit>>
    /\ UNCHANGED <<flags, ocf, override, db, opened, closed, connector, main, calc, lib>>

promote_failover ==
    /\ pc = "promote_failover"
    /\ \E err \in ExecErrs("Failover") :
          /\ Failover(err)
          /\ loc' = [loc EXCEPT !.failoverErr = err]
          /\ IF err # NoErr
             THEN Return(failoverFailedCode,
                         Wrap("Could not promote local replica to PRIMARY role", err))
             ELSE /\ pc' = "promote_wait"
                  /\ UNCHANGED <<ret, exit>>
    /\ UNCHANGED <<flags, ocf, override, opened, closed, connector, main, calc, lib>>

\* promotePredicate that is content with any role
promotePredicate_any(role) == TRUE

\* the predicate promote waits for: func(role) bool { return role == RolePRIMARY }
promotePredicate(role) == role = RolePRIMARY

promote_wait ==
    /\ pc = "promote_wait"
    /\ \E r \in GetRole :
          /\ waitUntilRoleSatisfies(r)
          /\ IF r.err # NoErr
             THEN Return(failoverFailedCode,
                         Wrap("Failed while waiting for local replica to be in PRIMARY role", r.err))
             ELSE /\ pc' = IF promotePredicate(r.role) THEN "setRSSTC" ELSE "promote_wait"
                  /\ UNCHANGED <<ret, exit>>
    /\ UNCHANGED <<flags, ocf, override, db, opened, closed, connector, main, calc, lib>>

\* ------------------------------------------------------------- environment
HandlerPcs ==
    {"start", "start_wait", "monitor", "monitor_dbFailover", "waitOnline",
     "isPrimary", "calculateRSSTC", "setRSSTC", "prePromote",
     "prePromote_sequenceNumber", "promote_precheck", "promote_verify",
     "promote_numSync", "promote_failover", "promote_wait", "demote"}

\* the instance changes the local replica's role on its own: a role change
\* started by DDL settles, the replica loses or regains its primary
database_role ==
    /\ pc \in HandlerPcs
    /\ db.present
    /\ \E r \in Roles \ {db.role} : db' = [db EXCEPT !.role = r]
    /\ UNCHANGED <<pc, flags, ocf, override, opened, closed, connector, main, loc, trace, ret, exit, calc, lib>>

\* the local replica joins the AG or the AG is dropped
database_ag ==
    /\ pc \in HandlerPcs
    /\ IF db.present THEN db' = NoAG ELSE db' \in Databases \ {NoAG}
    /\ UNCHANGED <<pc, flags, ocf, override, opened, closed, connector, main, loc, trace, ret, exit, calc, lib>>

Next ==
    \/ doMain_flags
    \/ doMain_import
    \/ doMain_stop
    \/ doMain_rsstcArg
    \/ doMain_credentials
    \/ connector_attempt
    \/ connector_sleep
    \/ main_recvDb
    \/ main_recvErr
    \/ main_timeout
    \/ doMain_health
    \/ doMain_session
    \/ doMain_dispatch
    \/ isPrimary
    \/ calculateAndSetRequiredSynchronizedSecondariesToCommit
    \/ setRequiredSynchronizedSecondariesToCommit
    \/ start
    \/ start_wait
    \/ monitor
    \/ monitor_dbFailover
    \/ waitForDatabasesToBeOnline
    \/ waitForDatabasesToBeOnline_end
    \/ prePromote
    \/ prePromote_sequenceNumber
    \/ demote
    \/ promote_precheck
    \/ promote_verify
    \/ promote_numSync
    \/ promote_failover
    \/ promote_wait
    \/ database_role
    \/ database_ag

Spec == Init /\ [][Next]_vars

\* ------------------------------------------------- the RSSTC formula alone
InitCalc ==
    /\ FreshProcess
    /\ db = NoAG
    /\ calc \in [numReplicas : 0..MaxNumReplicas, result : {0}, done : {FALSE}]
    /\ lib = NoLib

calculate ==
    /\ ~calc.done
    /\ calc' = [calc EXCEPT !.result =
                   calculateRequiredSynchronizedSecondariesToCommit(calc.numReplicas),
                            !.done = TRUE]
    /\ UNCHANGED <<pc, flags, ocf, override, db, opened, closed, connector, main,
                   loc, trace, ret, exit, lib>>

NextCalc == calculate

SpecCalc == InitCalc /\ [][NextCalc]_vars

\* ------------ SetRequiredSynchronizedSecondariesToCommit called twice in a row
\* the instance before the first call: no AG of this name, or one whose
\* REQUIRED_SYNCHRONIZED_SECONDARIES_TO_COMMIT is any value up to MaxSetValue
SetTwiceDatabases ==
    [present : {TRUE}, role : Roles, rsstc : 0..MaxSetValue] \cup {NoAG}

\* newValue, the same in both calls, is kept in override
InitSetTwice ==
    /\ pc = "setFirst"
    /\ flags = DefaultFlags
    /\ ocf = ZeroSlots
    /\ override \in [set : {TRUE}, v : 0..MaxSetValue]
    /\ db \in SetTwiceDatabases
    /\ opened = {}
    /\ closed = {}
    /\ connector = IdleConnector
    /\ main = ZeroMain
    /\ loc = ZeroLoc
    /\ trace = <<>>
    /\ ret = NoRet
    /\ exit = Running
    /\ calc = [numReplicas |-> 0, result |-> 0, done |-> FALSE]
    /\ lib = NoLib

\* one call: what it returned, the AG row it met and how many statements of
\* the batch ran are noted in lib
setCall ==
    /\ \E err \in ExecErrs("SetRequiredSynchronizedSecondariesToCommit") :
          /\ SetRequiredSynchronizedSecondariesToCommit(override.v, err)
          /\ lib' = [lib EXCEPT !.calls =
                        Append(@, [err |-> err, before |-> db,
                                   statements |-> Len(trace') - Len(trace)])]
    /\ UNCHANGED <<flags, ocf, override, opened, closed, connector, main, loc, ret,
                   exit, calc>>

setFirst ==
    /\ pc = "setFirst"
    /\ setCall
    /\ pc' = "setSecond"

setSecond ==
    /\ pc = "setSecond"
    /\ setCall
    /\ pc' = "setDone"

NextSetTwice == setFirst \/ setSecond

SpecSetTwice == InitSetTwice /\ [][NextSetTwice]_vars

\* ------------------------------------------- SetLocalServerName on its own
\* server names are texts over letters that differ in case only or not at all
NameChars == {"a", "A", "b", "B"}

ServerNames == UNION {[1..n -> NameChars] : n \in 1..MaxNameLen}

\* the lower-case form of a letter
Lower(c) == CASE c = "A" -> "a" [] c = "B" -> "b" [] OTHER -> c

\* EqualFold that compares the texts as they are
EqualFold_exact(s, t) == s = t

\* strings.EqualFold
EqualFold(s, t) ==
    /\ Len(s) = Len(t)
    /\ \A i \in 1..Len(s) : Lower(s[i]) = Lower(t[i])

\* the row of sys.servers with server_id 0, if there is one
NoServerRow == [present |-> FALSE, name |-> <<>>]

ServerRows == {NoServerRow} \cup {[present |-> TRUE, name |-> n] : n \in ServerNames}

\* lib holds the row, the row as it was before the call, the argument
\* serverName, the local currentServerName and the errors of the statements
InitServerName ==
    /\ pc = "SetLocalServerName"
    /\ flags = DefaultFlags
    /\ ocf = ZeroSlots
    /\ override = NilOverride
    /\ db = NoAG
    /\ opened = {}
    /\ closed = {}
    /\ connector = IdleConnector
    /\ main = ZeroMain
    /\ loc = ZeroLoc
    /\ trace = <<>>
    /\ ret = NoRet
    /\ exit = Running
    /\ calc = [numReplicas |-> 0, result |-> 0, done |-> FALSE]
    /\ lib \in {[row |-> r, before |-> r, serverName |-> n, currentServerName |-> <<>>,
                  lookupErr |-> NoErr, dropErr |-> NoErr, err |-> NoErr] :
                    r \in ServerRows, n \in ServerNames}

\* SELECT name FROM sys.servers WHERE server_id = 0, and the two tests of its
\* result
SetLocalServerName ==
    /\ pc = "SetLocalServerName"
    /\ trace' = Append(trace, "SELECT sys.servers")
    /\ \E r \in (IF lib.row.present
                THEN {[name |-> lib.row.name, err |-> NoErr]}
                ELSE {[name |-> <<>>, err |-> ErrNoRows]})
               \cup {[name |-> <<>>, err |-> QueryErr("sys.servers")]} :
          IF r.err = NoErr /\ EqualFold(r.name, lib.serverName)
          THEN /\ lib' = [lib EXCEPT !.currentServerName = r.name]
               /\ pc' = "SetLocalServerName_returned"
          ELSE IF r.err # NoErr /\ r.err # ErrNoRows
          THEN /\ lib' = [lib EXCEPT !.lookupErr = r.err, !.err = r.err]
               /\ pc' = "SetLocalServerName_returned"
          ELSE /\ lib' = [lib EXCEPT !.currentServerName = r.name, !.lookupErr = r.err]
               /\ pc' = IF r.err = NoErr THEN "SetLocalServerName_drop"
                                         ELSE "SetLocalServerName_add"
    /\ UNCHANGED <<flags, ocf, override, db, opened, closed, connector, main, loc,
                   ret, exit, calc>>

\* EXEC sp_dropserver ?, currentServerName
SetLocalServerName_drop ==
    /\ pc = "SetLocalServerName_drop"
    /\ trace' = Append(trace, "sp_dropserver")
    /\ \E err \in ExecErrs("sp_dropserver") :
          IF err # NoErr
          THEN /\ lib' = [lib EXCEPT !.dropErr = err, !.err = err]
               /\ pc' = "SetLocalServerName_returned"
          ELSE /\ lib' = [lib EXCEPT !.row =
                              IF lib.row.present /\ lib.row.name = lib.currentServerName
                              THEN NoServerRow ELSE lib.row]
               /\ pc' = "SetLocalServerName_add"
    /\ UNCHANGED <<flags, ocf, override, db, opened, closed, connector, main, loc,
                   ret, exit, calc>>

\* EXEC sp_addserver ?, local
SetLocalServerName_add ==
    /\ pc = "SetLocalServerName_add"
    /\ trace' = Append(trace, "sp_addserver")
    /\ \E err \in ExecErrs("sp_addserver") :
          lib' = [lib EXCEPT !.err = err,
                             !.row = IF err = NoErr
                                     THEN [present |-> TRUE, name |-> lib.serverName]
                                     ELSE lib.row]
    /\ pc' = "SetLocalServerName_returned"
    /\ UNCHANGED <<flags, ocf, override, db, opened, closed, connector, main, loc,
                   ret, exit, calc>>

NextServerName ==
    \/ SetLocalServerName
    \/ SetLocalServerName_drop
    \/ SetLocalServerName_add

SpecServerName == InitServerName /\ [][NextServerName]_vars

\* ------------------------------------ ImportOcfExitCodes called repeatedly
\* As in TestImportOcfExitCodes the function is called again in the same
\* process with the environment changed in between.  lib.calls holds for
\* each call the environment, the slots before the call and the error.
InitImportTwice ==
    /\ pc = "importFirst"
    /\ flags = DefaultFlags
    /\ ocf = ZeroSlots
    /\ override = NilOverride
    /\ db = NoAG
    /\ opened = {}
    /\ closed = {}
    /\ connector = IdleConnector
    /\ main = ZeroMain
    /\ loc = ZeroLoc
    /\ trace = <<>>
    /\ ret = NoRet
    /\ exit = Running
    /\ calc = [numReplicas |-> 0, result |-> 0, done |-> FALSE]
    /\ lib = NoLib

importCall ==
    /\ \E env \in Environments :
          LET r == ImportOcfExitCodes(ocf, env)
          IN  /\ ocf' = r.slots
              /\ lib' = [lib EXCEPT !.calls =
                            Append(@, [env |-> env, before |-> ocf, err |-> r.err])]
    /\ UNCHANGED <<flags, override, db, opened, closed, connector, main, loc, trace,
                   ret, exit, calc>>

importFirst == pc = "importFirst" /\ importCall /\ pc' = "importSecond"

importSecond == pc = "importSecond" /\ importCall /\ pc' = "importDone"

NextImportTwice == importFirst \/ importSecond

SpecImportTwice == InitImportTwice /\ [][NextImportTwice]_vars

\* ------------------------------------------- pre-promote and then promote
\* Two invocations of ag-helper on the same replica: pre-promote, whose
\* printed sequence number the cluster manager stores, and then promote.
\* Each starts at its handler, connected, with the exit codes imported and
\* without --required-synchronized-secondaries-to-commit.
\* lib holds what the first invocation left behind: the lines it printed and
\* the availability mode it read.
NoPrePromote == [done |-> FALSE, emitted |-> <<>>, availabilityMode |-> AmASYNCHRONOUS_COMMIT]

InitPromotion ==
    /\ pc = "prePromote"
    /\ flags = [DefaultFlags EXCEPT !.action = "pre-promote",
                                    !.environ = requiredEnvironmentVariables,
                                    !.imported = TRUE]
    /\ ocf = ImportOcfExitCodes(ZeroSlots, requiredEnvironmentVariables).slots
    /\ override = NilOverride
    /\ db \in Databases
    /\ opened = {1}
    /\ closed = {}
    /\ connector = [IdleConnector EXCEPT !.pc = "returned"]
    /\ main = [ZeroMain EXCEPT !.db = 1]
    /\ loc = [ZeroLoc EXCEPT !.caller = "prePromote"]
    /\ trace = <<>>
    /\ ret = NoRet
    /\ exit = Running
    /\ calc = [numReplicas |-> 0, result |-> 0, done |-> FALSE]
    /\ lib = NoPrePromote

\* pre-promote has ended with OCF_SUCCESS; the cluster manager invokes promote
\* on the replica, a new process; the instance changes while promote runs
promote_invoked ==
    /\ pc = "exited"
    /\ ~lib.done
    /\ loc.caller = "prePromote"
    /\ ret.code = "OCF_SUCCESS"
    /\ lib' = [done |-> TRUE, emitted |-> loc.emitted,
               availabilityMode |-> loc.availabilityMode]
    /\ flags' = [flags EXCEPT !.action = "promote", !.newMaster = "n1"]
    /\ loc' = [ZeroLoc EXCEPT !.caller = "promote"]
    /\ trace' = <<>>
    /\ ret' = NoRet
    /\ exit' = Running
    /\ opened' = {1}
    /\ closed' = {}
    /\ pc' = "isPrimary"
    /\ UNCHANGED <<ocf, override, db, connector, main, calc>>

NextPromotion ==
    \/ prePromote
    \/ prePromote_sequenceNumber
    \/ promote_invoked
    \/ isPrimary
    \/ promote_precheck
    \/ promote_verify
    \/ promote_numSync
    \/ promote_failover
    \/ promote_wait
    \/ setRequiredSynchronizedSecondariesToCommit
    \/ database_role
    \/ database_ag

SpecPromotion == InitPromotion /\ [][NextPromotion]_vars

\* --------------------------------------- waitUntilRoleSatisfies on its own
\* The loop with the predicate of start or of promote, without a bound on
\* its rounds.  lib holds the predicate's owner, the role and error of the
\* latest poll, the number of failed polls and the number of polls, which is
\* counted up to MaxPolls + 1 only.
InitWait ==
    /\ pc \in {"start_wait", "promote_wait"}
    /\ flags = DefaultFlags
    /\ ocf = ZeroSlots
    /\ override = NilOverride
    /\ db \in Databases
    /\ opened = {}
    /\ closed = {}
    /\ connector = IdleConnector
    /\ main = ZeroMain
    /\ loc = ZeroLoc
    /\ trace = <<>>
    /\ ret = NoRet
    /\ exit = Running
    /\ calc = [numReplicas |-> 0, result |-> 0, done |-> FALSE]
    /\ lib = [predicate |-> IF pc = "start_wait" THEN "start" ELSE "promote",
              role |-> RoleRESOLVING, err |-> NoErr, failed |-> 0, polls |-> 0]

\* one round of the loop: GetRole, return on its error, return nil if the
\* predicate holds, else go round again
waitUntilRoleSatisfies_round ==
    /\ pc \in {"start_wait", "promote_wait"}
    /\ \E r \in GetRole :
          /\ lib' = [lib EXCEPT !.role = IF r.err = NoErr THEN r.role ELSE lib.role,
                                !.err = r.err,
                                !.failed = IF r.err # NoErr THEN lib.failed + 1
                                                           ELSE lib.failed,
                                !.polls = IF lib.polls <= MaxPolls THEN lib.polls + 1
                                                                   ELSE lib.polls]
          /\ pc' = IF r.err # NoErr THEN "waitUntilRoleSatisfies_returned"
                   ELSE IF pc = "start_wait" /\ startPredicate(r.role)
                        THEN "waitUntilRoleSatisfies_returned"
                   ELSE IF pc = "promote_wait" /\ promotePredicate(r.role)
                        THEN "waitUntilRoleSatisfies_returned"
                   ELSE pc
    /\ UNCHANGED <<flags, ocf, override, db, opened, closed, connector, main, loc,
                   trace, ret, exit, calc>>

NextWait ==
    \/ waitUntilRoleSatisfies_round
    \/ database_role
    \/ database_ag

\* the loop is the running code of the process: as long as GetRole answers,
\* the next round is taken.  Nothing is assumed about the instance.
SpecWait == InitWait /\ [][NextWait]_vars /\ WF_vars(waitUntilRoleSatisfies_round)

\* ------------------------------------------------------------------ claims
\* stmt was sent to the instance (or run) by this process
Issued(stmt) == \E i \in 1..Len(trace) : trace[i] = stmt

\* the handler promote was entered
Promoting == loc.caller = "promote"

\* the handler returned and doMain ended the process through OcfExit
Returned == pc = "exited" /\ exit.how = "ocf"

ReturnedCode(code) ==
    /\ Returned
    /\ ret.code = code
    /\ exit.status = ocf[code] + 10

\* the lines of --sequence-numbers that the line regex matches, the ones of
\* them for --new-master, and the value the last of those carries
MatchedLines ==
    {i \in 1..Len(flags.sequenceNumbers) :
        lineRegexMatches(flags.sequenceNumbers[i])}

NewMasterLines ==
    {i \in MatchedLines : flags.sequenceNumbers[i].host = flags.newMaster}

RecordedNewMasterValue ==
    IF NewMasterLines = {} THEN <<"0">>
    ELSE LET last == CHOOSE i \in NewMasterLines : \A j \in NewMasterLines : j <= i
         IN  StripZeros(flags.sequenceNumbers[last].value)

SomeLineGreater ==
    LET recorded == RecordedNewMasterValue
    IN  \E i \in MatchedLines :
            DecGreater(flags.sequenceNumbers[i].value, recorded)

AbortedBeforeFailover ==
    /\ ReturnedCode("OCF_ERR_GENERIC")
    /\ ret.err # NoErr
    /\ ~Issued("FAILOVER")

\* C1: promotion monotonicity.  In a promote that gets to examine
\* --sequence-numbers, whenever a line matching the line regex carries a value
\* greater than the value recorded for the host equal to --new-master, promote
\* has returned OCF_ERR_GENERIC and no FAILOVER was issued by the invocation.
\* A promote that ends before it examines the lines, not having found the
\* replica PRIMARY already, returns OCF_ERR_GENERIC without a FAILOVER for
\* every input.
C1_PromotionMonotonicity ==
    /\ (Promoting /\ loc.parsed /\ SomeLineGreater) => AbortedBeforeFailover
    /\ (Promoting /\ Returned /\ ~loc.parsed
            /\ ~(loc.roleQueried /\ loc.role = RolePRIMARY))
        => AbortedBeforeFailover

\* a promote for n1 with a sequence number of at least 1 that another line
\* exceeds was turned away by the comparison with the max sequence number
C1_Witness ==
    /\ Promoting /\ loc.parsed /\ SomeLineGreater
    /\ RecordedNewMasterValue # <<"0">>
    /\ ReturnedCode("OCF_ERR_GENERIC")
    /\ ret.err.src = "max sequence number"

\* the value promote compares the number of lines with
QuorumRequiredValue ==
    IF override.set THEN override.v
    ELSE calculateRequiredSynchronizedSecondariesToCommit(loc.numSyncCommitReplicas)

\* C2: promotion quorum.  Once promote has read the number of
\* SYNCHRONOUS_COMMIT replicas, if the number of matched sequence-number lines
\* is smaller than that number minus the required value (the override, or the
\* computed RSSTC), promote has returned OCF_ERR_GENERIC and no FAILOVER was
\* issued.
C2_PromotionQuorum ==
    (Promoting /\ loc.numSyncQueried
        /\ Cardinality(MatchedLines) < loc.numSyncCommitReplicas - QuorumRequiredValue)
    => AbortedBeforeFailover

\* a promote whose sequence numbers passed the checks but were too few
C2_Witness ==
    /\ Promoting /\ loc.numSyncQueried
    /\ Cardinality(MatchedLines) >= 1
    /\ Cardinality(MatchedLines) < loc.numSyncCommitReplicas - QuorumRequiredValue
    /\ ReturnedCode("OCF_ERR_GENERIC")
    /\ ret.err.src = "quorum"

\* C3: in a promote that gets to examine --sequence-numbers, if no matched line
\* is for --new-master or the value recorded for it is 0 (an empty input
\* included), promote has returned OCF_ERR_GENERIC and no FAILOVER was issued;
\* and whenever promote has issued FAILOVER, the value recorded for
\* --new-master is at least 1 and no matched line carries a greater one.
C3_NewMasterValueRequired ==
    /\ (Promoting /\ loc.parsed /\ RecordedNewMasterValue = <<"0">>)
        => AbortedBeforeFailover
    /\ (Promoting /\ Issued("FAILOVER"))
        => /\ loc.parsed
           /\ NewMasterLines # {}
           /\ DecGreater(RecordedNewMasterValue, <<"0">>)
           /\ ~SomeLineGreater

\* a promote with the empty --sequence-numbers was turned away by the check
\* for sequence number 0
C3_Witness ==
    /\ Promoting /\ loc.parsed
    /\ flags.sequenceNumbers = <<EmptyLine>>
    /\ ReturnedCode("OCF_ERR_GENERIC")
    /\ ret.err.src = "sequence number 0"

\* C4: in a promote that gets to the pre-check without --skip-precheck, the
\* availability mode is queried, and if the query fails or the mode is not
\* SYNCHRONOUS_COMMIT promote has returned OCF_ERR_GENERIC without having
\* parsed the sequence numbers or issued FAILOVER; with --skip-precheck the
\* availability mode is not queried.
C4_PreCheck ==
    /\ (Promoting /\ loc.prechecked /\ ~flags.skipPreCheck)
        => /\ Issued("GetAvailabilityMode")
           /\ (loc.modeErr # NoErr \/ loc.availabilityMode # AmSYNCHRONOUS_COMMIT)
                => (AbortedBeforeFailover /\ ~loc.parsed)
    /\ (Promoting /\ loc.prechecked /\ flags.skipPreCheck)
        => (~Issued("GetAvailabilityMode") /\ ~loc.modeQueried)

\* a promote on a CONFIGURATION_ONLY replica was turned away by the pre-check
C4_Witness ==
    /\ Promoting /\ loc.prechecked /\ ~flags.skipPreCheck
    /\ loc.modeErr = NoErr
    /\ loc.availabilityMode = AmCONFIGURATION_ONLY
    /\ ReturnedCode("OCF_ERR_GENERIC")
    /\ ~loc.parsed

\* the role query at the start of promote found the replica PRIMARY
PromoteFoundPrimary ==
    Promoting /\ loc.roleQueried /\ loc.rolePolls = 0 /\ loc.role = RolePRIMARY

\* C5: a promote that finds the replica in the PRIMARY role already returns
\* OCF_SUCCESS with no error; beyond the connect and the role query it sends
\* nothing to the instance (no FAILOVER, no RSSTC statement), and it reads
\* neither --skip-precheck nor --sequence-numbers.
C5_PromoteOnPrimary ==
    PromoteFoundPrimary
    => /\ ReturnedCode("OCF_SUCCESS")
       /\ ret.err = NoErr
       /\ trace = <<"ReadCredentialsFile", "sp_server_diagnostics",
                    "sp_set_session_context", "GetRole">>
       /\ ~loc.prechecked /\ ~loc.modeQueried /\ ~loc.parsed /\ ~loc.numSyncQueried
       /\ flags.skipPreCheck = DefaultFlags.skipPreCheck
       /\ flags.sequenceNumbers = DefaultFlags.sequenceNumbers

C5_Witness ==
    /\ PromoteFoundPrimary
    /\ ReturnedCode("OCF_SUCCESS")
    /\ db.present /\ db.role = RolePRIMARY

\* C6: a promote that returned did so with OCF_FAILED_MASTER exactly if it
\* had issued FAILOVER and the FAILOVER or a role poll after it returned an
\* error; every failure without a FAILOVER issued returns OCF_ERR_GENERIC.
C6_FailedMaster ==
    (Promoting /\ Returned)
    => /\ (ret.code = "OCF_FAILED_MASTER")
            <=> (Issued("FAILOVER")
                    /\ (loc.failoverErr # NoErr \/ loc.pollErr # NoErr))
       /\ (~Issued("FAILOVER") /\ ret.err # NoErr) => ret.code = "OCF_ERR_GENERIC"

\* the FAILOVER went through and a role poll after it failed
C6_Witness ==
    /\ Promoting
    /\ ReturnedCode("OCF_FAILED_MASTER")
    /\ Issued("FAILOVER")
    /\ loc.failoverErr = NoErr
    /\ loc.rolePolls >= 1
    /\ loc.pollErr # NoErr

\* C7: the RSSTC formula: the result is 0 for two replicas and otherwise the
\* r with 2r <= numReplicas < 2r + 2; 1->0, 2->0, 3->1, 4->2, 5->2, 6->3, 7->3.
C7_RsstcFormula ==
    calc.done
    => /\ calc.numReplicas = 2 => calc.result = 0
       /\ calc.numReplicas # 2
            => /\ 2 * calc.result <= calc.numReplicas
               /\ calc.numReplicas < 2 * calc.result + 2
       /\ calc.numReplicas \in 1..7
            => calc.result = <<0, 0, 1, 2, 2, 3, 3>>[calc.numReplicas]

C7_Witness ==
    calc.done /\ calc.numReplicas = 2 /\ calc.result = 0

\* --required-synchronized-secondaries-to-commit was read and is -2 or
\* MaxInt32 + 1
RsstcArgIsOutOfRange ==
    flags.rsstcArg \in {Dec(TRUE, <<"2">>), Dec(FALSE, OverInt32Text)}

\* C8: an invocation that gets to read
\* --required-synchronized-secondaries-to-commit and finds it out of range
\* (negative but not -1, or above MaxInt32) has exited with
\* OCF_ERR_CONFIGURED, with no credentials read and no connection attempted.
C8_RsstcOutOfRange ==
    RsstcArgIsOutOfRange
    => /\ ReturnedCode("OCF_ERR_CONFIGURED")
       /\ ret.err # NoErr
       /\ ~Issued("ReadCredentialsFile")
       /\ trace = <<>>
       /\ opened = {}
       /\ connector = IdleConnector
       /\ override = NilOverride

C8_Witness ==
    /\ flags.rsstcArg = Dec(FALSE, OverInt32Text)
    /\ ReturnedCode("OCF_ERR_CONFIGURED")
    /\ flags.action = "monitor"

\* monitor ran (for --action monitor, or at the end of start) and returned
MonitorReturned == Returned /\ loc.monitorRole # ""

\* C9: what monitor returns: OCF_NOT_RUNNING with no error if the AG row is
\* missing or the role is RESOLVING; OCF_SUCCESS for SECONDARY; for PRIMARY
\* OCF_RUNNING_MASTER if nothing failed up to and including the RSSTC
\* statement, otherwise OCF_ERR_GENERIC with the error; OCF_ERR_GENERIC if the
\* role query failed in another way.
C9_MonitorMapping ==
    MonitorReturned
    => /\ loc.monitorRole = "missing"
            => (ReturnedCode("OCF_NOT_RUNNING") /\ ret.err = NoErr)
       /\ loc.monitorRole = "error"
            => (ReturnedCode("OCF_ERR_GENERIC") /\ ret.err # NoErr)
       /\ (loc.monitorRole = "found" /\ loc.role = RoleRESOLVING)
            => (ReturnedCode("OCF_NOT_RUNNING") /\ ret.err = NoErr)
       /\ (loc.monitorRole = "found" /\ loc.role = RoleSECONDARY)
            => (ReturnedCode("OCF_SUCCESS") /\ ret.err = NoErr)
       /\ (loc.monitorRole = "found" /\ loc.role = RolePRIMARY)
            => \/ /\ ReturnedCode("OCF_RUNNING_MASTER")
                  /\ ret.err = NoErr
                  /\ loc.dbFailoverQueried
                  /\ loc.dbFailoverMode => loc.waitDone
                  /\ Issued("EXEC RSSTC")
               \/ /\ ReturnedCode("OCF_ERR_GENERIC")
                  /\ ret.err # NoErr

\* a monitor on a PRIMARY with DB_FAILOVER ON that polled the databases
C9_Witness ==
    /\ MonitorReturned
    /\ loc.caller = "monitor"
    /\ loc.monitorRole = "found" /\ loc.role = RolePRIMARY
    /\ loc.dbFailoverMode
    /\ Len(loc.polls) >= 1
    /\ ReturnedCode("OCF_RUNNING_MASTER")

\* a poll of this invocation reported every database ONLINE
SomePollAllOnline ==
    \E i \in 1..Len(loc.polls) :
        loc.polls[i].err = NoErr /\ loc.polls[i].result = ""

\* what the latest poll reported: the error of the query or the summary
LatestPollOutcome ==
    IF Len(loc.polls) = 0 THEN "no poll"
    ELSE LET last == loc.polls[Len(loc.polls)]
         IN  IF last.err # NoErr THEN last.err.src ELSE last.result

\* C10: whenever monitor returns OCF_RUNNING_MASTER for an AG with DB_FAILOVER
\* ON, a GetDatabaseStates poll of the invocation reported every database
\* ONLINE, whatever --online-databases-retries is; and when the wait ends with
\* no poll having reported all ONLINE, monitor returns OCF_ERR_GENERIC with the
\* latest poll's outcome.
C10_OnlineBeforeRunningMaster ==
    /\ (MonitorReturned /\ loc.dbFailoverMode /\ ret.code = "OCF_RUNNING_MASTER")
        => SomePollAllOnline
    /\ (MonitorReturned /\ loc.dbFailoverMode /\ loc.waitDone /\ ~SomePollAllOnline)
        => /\ ReturnedCode("OCF_ERR_GENERIC")
           /\ ret.err.kind = "Failed while waiting for databases to be online"
           /\ ret.err.src = LatestPollOutcome

\* the number of role queries in the trace
RoleQueries == Cardinality({i \in 1..Len(trace) : trace[i] = "GetRole"})

\* the handler start was entered
Starting == loc.caller = "start"

\* C11: start sends SET (ROLE = SECONDARY) first and drops its result, then
\* polls the role until it is not RESOLVING.  A poll that finds no AG row ends
\* start with OCF_ERR_ARGS, any other poll error with OCF_ERR_GENERIC; only
\* after a poll without error that read a role other than RESOLVING does
\* monitor run, and what start returns is then what monitor returned.
C11_StartSequence ==
    Starting
    => /\ pc # "start"
            => (Len(trace) >= 4 /\ trace[4] = "SET ROLE SECONDARY")
       /\ (pc = "monitor" \/ loc.monitorRole # "")
            => /\ loc.rolePolls >= 1
               /\ loc.pollErr = NoErr
               /\ loc.polledRole # RoleRESOLVING
       /\ Returned
            => IF loc.pollErr = ErrNoRows
               THEN /\ ReturnedCode("OCF_ERR_ARGS")
                    /\ loc.monitorRole = ""
                    /\ RoleQueries = loc.rolePolls
               ELSE IF loc.pollErr # NoErr
               THEN /\ ReturnedCode("OCF_ERR_GENERIC")
                    /\ ret.err.kind = "Failed while waiting for local replica to be in SECONDARY role"
                    /\ loc.monitorRole = ""
                    /\ RoleQueries = loc.rolePolls
               ELSE /\ loc.monitorRole # ""
                    /\ RoleQueries = loc.rolePolls + 1
                    /\ ret.err.src # "SetRoleToSecondary"

\* a start whose SET (ROLE = SECONDARY) failed, that polled RESOLVING first and
\* then went on to monitor, which found the replica primary
C11_Witness ==
    /\ Starting
    /\ loc.setRoleErr # NoErr
    /\ loc.rolePolls = 2
    /\ loc.monitorRole = "found"
    /\ ReturnedCode("OCF_RUNNING_MASTER")

\* C12: start never returns OCF_NOT_RUNNING, whatever the database does to the
\* role between the last poll of start and the role query of monitor.
C12_StartNeverNotRunning ==
    (Starting /\ Returned) => ret.code # "OCF_NOT_RUNNING"

\* the invocation is for --action stop
Stopping == flags.action = "stop"

\* C13: stop is a no-op.  An invocation for stop never reads the credentials
\* file, never opens a connection, never sets the session context and never
\* sends DDL or any other statement, and when it gets to the action it exits
\* with OCF_SUCCESS.
C13_StopIsNoOp ==
    Stopping
    => /\ trace = <<>>
       /\ opened = {}
       /\ connector = IdleConnector
       /\ main = ZeroMain
       /\ loc = ZeroLoc
       /\ db = NoAG
       /\ pc \in {"flags", "import", "afterImport", "exited"}
       /\ Returned => (ReturnedCode("OCF_SUCCESS") /\ ret.err = NoErr)

\* a stop that exited with OCF_SUCCESS
C13_Witness ==
    /\ Stopping
    /\ flags.imported
    /\ ReturnedCode("OCF_SUCCESS")
    /\ trace = <<>>

\* ImportOcfExitCodes ran and the text of some OCF_* variable was not a number
SomeVariableInvalid ==
    /\ flags.imported
    /\ \E n \in OcfNameSet :
          \/ ~IsDigits(flags.environ[n])
          \/ DecGreater(flags.environ[n], MaxInt64Text)

\* the process ended in main with status 1 on the error of the import
EndedOnImportError ==
    /\ pc = "exited"
    /\ exit.how = "unexpected"
    /\ exit.status = 1
    /\ exit.err.kind = "is set to an invalid value"

\* C14 as stated: stop does not call ImportOcfExitCodes and does not need the
\* nine OCF_* variables; with any of them unset or invalid stop still exits
\* with status 10.
C14_StopWithoutExitCodes ==
    (Stopping /\ pc = "exited" /\ flags.imported)
    => /\ ocf = ZeroSlots
       /\ exit.status = 10

\* C14 (amended): ImportOcfExitCodes runs before the action is looked at, for
\* stop as for every other action.  With all nine variables valid stop exits
\* through OcfExit with the imported value of OCF_SUCCESS plus 10; with any of
\* them unset or invalid the process ends with status 1 on the import's error.
\* In both cases nothing is read or sent.
C14_StopImportsExitCodes ==
    (Stopping /\ pc = "exited" /\ flags.imported)
    => /\ trace = <<>> /\ opened = {}
       /\ IF SomeVariableInvalid
          THEN EndedOnImportError
          ELSE /\ ReturnedCode("OCF_SUCCESS")
               /\ exit.status = DecValue(flags.environ["OCF_SUCCESS"]) + 10
               /\ \A n \in OcfNameSet : ocf[n] = DecValue(flags.environ[n])

\* a stop that ended with status 1 because OCF_NOT_RUNNING was not set
C14_Witness ==
    /\ Stopping
    /\ flags.imported
    /\ flags.environ["OCF_NOT_RUNNING"] = <<>>
    /\ EndedOnImportError
    /\ exit.err.src = "OCF_NOT_RUNNING"

\* what doMain itself reads or sends up to the dispatch
ConnectStatements ==
    {"ReadCredentialsFile", "sp_server_diagnostics", "sp_set_session_context"}

\* the Exec of sp_set_session_context failed
SessionContextFailed == main.err = Err("exec", "sp_set_session_context")

\* C15: for every action that connects, sp_set_session_context is the
\* statement after the connect (credentials, sp_server_diagnostics on an open
\* connection) and comes before anything a handler sends; a handler only runs
\* after it succeeded.  If it fails the process exits with OCF_ERR_GENERIC,
\* no handler is entered and no statement follows it.
C15_SessionContextFirst ==
    /\ \A i \in 1..Len(trace) :
          trace[i] \notin ConnectStatements
          => (i > 3 /\ loc.caller # "")
    /\ loc.caller # ""
          => /\ ~Stopping
             /\ Len(trace) >= 3
             /\ SubSeq(trace, 1, 3) = <<"ReadCredentialsFile", "sp_server_diagnostics",
                                        "sp_set_session_context">>
             /\ main.db \in opened \ closed
             /\ main.err = NoErr
    /\ SessionContextFailed
          => /\ ReturnedCode("OCF_ERR_GENERIC")
             /\ ret.err = Err("exec", "sp_set_session_context")
             /\ loc = ZeroLoc
             /\ trace[Len(trace)] = "sp_set_session_context"
             /\ db = NoAG

\* a promote that ended at the failed sp_set_session_context
C15_Witness ==
    /\ flags.action = "promote"
    /\ SessionContextFailed
    /\ ReturnedCode("OCF_ERR_GENERIC")
    /\ Len(trace) = 3

\* doMain looked at the ServerUnhealthyError that OpenDBWithHealthCheck
\* returned, and with it at --health-threshold
HealthChecked ==
    /\ main.err.kind = "ServerUnhealthy"
    /\ pc \notin {"select", "health"}

\* doMain went on after the health check
Proceeded ==
    \/ pc = "session"
    \/ pc = "exited" /\ exit.how = "panic"

\* C16: when OpenDBWithHealthCheck returns a ServerUnhealthyError, the process
\* exits with OCF_ERR_GENERIC if and only if the error's severity is less than
\* or equal to --health-threshold; otherwise it goes on towards the action.
\* Under the default threshold 3 the severities 1 and 3 exit and 4 and 5 go on.
C16_HealthThreshold ==
    /\ DefaultFlags.healthThreshold = 3
    /\ HealthChecked
        => /\ main.err.sev \in {1, 3, 4, 5}
           /\ ReturnedCode("OCF_ERR_GENERIC") <=> main.err.sev <= flags.healthThreshold
           /\ Proceeded <=> main.err.sev > flags.healthThreshold
           /\ pc = "exited" => loc = ZeroLoc
           /\ flags.healthThreshold = 3
                => /\ main.err.sev \in {1, 3} => ReturnedCode("OCF_ERR_GENERIC")
                   /\ main.err.sev \in {4, 5} => Proceeded

\* a resource error (severity 4) met the threshold 4 and ended the process
C16_Witness ==
    /\ HealthChecked
    /\ main.err.sev = ServerModerateError
    /\ flags.healthThreshold = ServerModerateError
    /\ ReturnedCode("OCF_ERR_GENERIC")

\* the errors on which doMain returns to main instead of calling OcfExit
UnexpectedErrorKinds == {"flag", "is set to an invalid value", "query"}

\* C17: every termination of the process has status ocfCode + 10 for an OCF
\* outcome, or status 1 for an unexpected error (a missing flag, a failed
\* import of the OCF codes, a connect error that is no ServerUnhealthyError,
\* an unknown --action); no other exit status is produced.
C17_ExitStatuses ==
    pc = "exited"
    => \/ /\ exit.how = "ocf"
          /\ ret.code \in OcfNameSet
          /\ exit.status = ocf[ret.code] + 10
       \/ /\ exit.how = "unexpected"
          /\ exit.status = 1
          /\ exit.err.kind \in UnexpectedErrorKinds

\* OpenDBWithHealthCheck read the diagnostics and called Diagnose on them
Diagnosed == main.outcome = "diagnosed"

\* C18: Diagnose returns no error exactly when system, resource and
\* query_processing are all true; otherwise it returns a ServerUnhealthyError
\* for the first false component in the order system, resource,
\* query_processing, with severity Critical (3), Moderate (4) and AnyQualified
\* (5) respectively.
C18_DiagnosePriority ==
    Diagnosed
    => LET d == main.diagnostics
       IN  /\ main.err = NoErr <=> (d.System /\ d.Resource /\ d.QueryProcessing)
           /\ main.err # NoErr => main.err.kind = "ServerUnhealthy"
           /\ ~d.System
                => (main.err.sev = 3 /\ main.err.src = "system error")
           /\ (d.System /\ ~d.Resource)
                => (main.err.sev = 4 /\ main.err.src = "resource error")
           /\ (d.System /\ d.Resource /\ ~d.QueryProcessing)
                => (main.err.sev = 5 /\ main.err.src = "query processing error")

\* diagnostics with system and resource both false: the system error wins
C18_Witness ==
    /\ Diagnosed
    /\ ~main.diagnostics.System /\ ~main.diagnostics.Resource
    /\ main.diagnostics.QueryProcessing
    /\ main.err = ServerUnhealthyError(ServerCriticalError, "system error")

\* the order in which ImportOcfExitCodes imports the variables
ImportOrder ==
    <<"OCF_ERR_CONFIGURED", "OCF_ERR_GENERIC", "OCF_ERR_ARGS", "OCF_ERR_PERM",
      "OCF_ERR_UNIMPLEMENTED", "OCF_FAILED_MASTER", "OCF_NOT_RUNNING",
      "OCF_RUNNING_MASTER", "OCF_SUCCESS">>

\* the text is a decimal integer that Atoi accepts
IsDecimalInteger(text) == IsDigits(text) /\ ~DecGreater(text, MaxInt64Text)

\* the positions in ImportOrder of the variables whose text is no integer
InvalidPositions ==
    {i \in 1..Len(ImportOrder) : ~IsDecimalInteger(flags.environ[ImportOrder[i]])}

\* the import returned an error: main ended the process with it
ImportFailed ==
    /\ flags.imported
    /\ pc = "exited"
    /\ exit.how = "unexpected"
    /\ exit.err.kind = "is set to an invalid value"

\* C19: ImportOcfExitCodes succeeds exactly when all nine variables parse as
\* decimal integers, and then every slot holds its variable's integer;
\* otherwise its error is "<NAME> is set to an invalid value [<raw>]" for the
\* first invalid variable in import order, with the variable's raw text, which
\* is empty for a variable that is unset or empty.
C19_ImportExitCodes ==
    flags.imported
    => /\ ImportFailed <=> InvalidPositions # {}
       /\ InvalidPositions = {}
            => \A n \in OcfNameSet : ocf[n] = DecValue(StripZeros(flags.environ[n]))
       /\ InvalidPositions # {}
            => LET first == CHOOSE i \in InvalidPositions :
                                \A j \in InvalidPositions : i <= j
               IN  /\ exit.err.src = ImportOrder[first]
                   /\ exit.err.raw = flags.environ[ImportOrder[first]]
                   /\ exit.status = 1

\* OCF_ERR_ARGS is set to text that is no number and OCF_ERR_GENERIC, which is
\* imported before it, is not set: the error names OCF_ERR_GENERIC and an
\* empty text
C19_Witness ==
    /\ ImportFailed
    /\ flags.environ["OCF_ERR_ARGS"] = <<"A">>
    /\ flags.environ["OCF_ERR_GENERIC"] = <<>>
    /\ exit.err.src = "OCF_ERR_GENERIC"
    /\ exit.err.raw = <<>>

\* OpenDBWithHealthCheck returned from the case of the timeout channel
TimedOut == main.outcome = "timed out"

\* the error of the n-th attempt of the connector
AttemptError(n) == ServerUnhealthyError(ServerDownOrUnresponsive, DecText(n))

\* C20: when the deadline fires, the error returned is the most recent
\* connector error the main flow received; it is the constructed
\* ServerUnhealthyError{DownOrUnresponsive, "timed out ..."} if and only if
\* the main flow received no connector error before.  In both cases the
\* returned db is nil.
C20_TimeoutError ==
    TimedOut
    => /\ main.db = 0
       /\ main.err.kind = "ServerUnhealthy"
       /\ main.err.sev = ServerDownOrUnresponsive
       /\ main.received = 0
            <=> main.err = ServerUnhealthyError(ServerDownOrUnresponsive, "timed out")
       /\ main.received > 0 => main.err = AttemptError(main.received)

\* the deadline fired after the main flow had received the errors of two
\* attempts
C20_Witness ==
    /\ TimedOut
    /\ main.received = 2
    /\ main.err = AttemptError(2)
    /\ main.db = 0

\* OpenDBWithHealthCheck has returned and doMain has not yet run the statement
\* that overwrites err
OpenReturned == main.outcome # ""

\* C21: OpenDBWithHealthCheck returns a connection with no error only if an
\* OpenDB attempt succeeded and sp_server_diagnostics on that connection
\* reported system, resource and query_processing all healthy.  It returns on
\* the first connection delivered, and the connector makes no attempt after
\* delivering it: the delivered connection is the only one the process opens.
C21_HealthyConnection ==
    /\ (OpenReturned /\ main.db # 0 /\ main.err = NoErr)
        => /\ main.outcome = "diagnosed"
           /\ main.diagnostics.System
           /\ main.diagnostics.Resource
           /\ main.diagnostics.QueryProcessing
           /\ main.db \in opened \ closed
           /\ trace[Len(trace)] = "sp_server_diagnostics"
    /\ (OpenReturned /\ main.outcome # "timed out")
        => /\ connector.pc = "returned"
           /\ Cardinality(opened) = 1
    /\ connector.pc = "returned"
        => /\ Cardinality(opened) = 1
           /\ pc # "select"

\* the connection of the second attempt was delivered and found healthy
C21_Witness ==
    /\ OpenReturned
    /\ main.received = 1
    /\ main.db = 1
    /\ main.err = NoErr
    /\ connector.pc = "returned"
    /\ pc = "health"

\* the handler is preStart or postStop
Notified == loc.caller \in {"preStart", "postStop"}

\* what the handler sent after doMain's three statements
HandlerStatements == SubSeq(trace, 4, Len(trace))

\* the value REQUIRED_SYNCHRONIZED_SECONDARIES_TO_COMMIT is to get: the
\* override if one was given, else the one computed from the replica count
ReconciledValue ==
    IF override.set THEN override.v
    ELSE calculateRequiredSynchronizedSecondariesToCommit(loc.numSyncCommitReplicas)

\* C22: pre-start and post-stop behave the same.  A failing role query, a
\* missing AG row included, returns OCF_ERR_GENERIC.  If the replica is not
\* PRIMARY nothing but the role query is sent and OCF_SUCCESS is returned.  If
\* it is PRIMARY the RSSTC is reconciled to the override if one was given and
\* to the computed value otherwise: OCF_SUCCESS if that worked, else
\* OCF_ERR_GENERIC.
C22_PreStartPostStop ==
    (Notified /\ Returned)
    => IF ~loc.roleQueried
       THEN /\ ReturnedCode("OCF_ERR_GENERIC")
            /\ ret.err.kind = "Could not check if local replica is in PRIMARY role"
            /\ HandlerStatements = <<"GetRole">>
       ELSE IF loc.role # RolePRIMARY
       THEN /\ ReturnedCode("OCF_SUCCESS")
            /\ ret.err = NoErr
            /\ HandlerStatements = <<"GetRole">>
       ELSE \/ /\ ReturnedCode("OCF_SUCCESS")
               /\ ret.err = NoErr
               /\ Issued("EXEC RSSTC")
               /\ Issued("GetNumSyncCommitReplicas") <=> ~override.set
               /\ db.present /\ db.rsstc = ReconciledValue
            \/ /\ ReturnedCode("OCF_ERR_GENERIC")
               /\ ret.err # NoErr
               /\ ~Issued("ALTER RSSTC") \/ ~override.set \/ ret.err.kind =
                     "Could not set value of REQUIRED_SYNCHRONIZED_SECONDARIES_TO_COMMIT"

\* a post-stop on a PRIMARY with an override that altered the RSSTC
C22_Witness ==
    /\ loc.caller = "postStop"
    /\ loc.role = RolePRIMARY
    /\ override.set
    /\ Issued("ALTER RSSTC")
    /\ ReturnedCode("OCF_SUCCESS")
    /\ db.rsstc = override.v

\* the handler prePromote was entered
PrePromoting == loc.caller = "prePromote"

\* C23: when its queries succeed pre-promote emits exactly one sequence number
\* and returns OCF_SUCCESS: the replica's sequence number if the availability
\* mode is SYNCHRONOUS_COMMIT or CONFIGURATION_ONLY, and 0 for any other mode,
\* for which the sequence number is not queried.  When a query fails it emits
\* nothing and returns OCF_ERR_GENERIC.
C23_PrePromote ==
    PrePromoting
    => /\ ~Returned => loc.emitted = <<>>
       /\ Returned
           => IF ~loc.modeQueried
              THEN /\ ReturnedCode("OCF_ERR_GENERIC")
                   /\ ret.err.kind = "Could not query availability mode of local replica"
                   /\ loc.emitted = <<>>
                   /\ HandlerStatements = <<"GetAvailabilityMode">>
              ELSE IF loc.availabilityMode \in {1, 4}
              THEN /\ HandlerStatements = <<"GetAvailabilityMode", "GetSequenceNumber">>
                   /\ \/ /\ ReturnedCode("OCF_SUCCESS")
                         /\ ret.err = NoErr
                         /\ loc.emitted = <<loc.sequenceNumber>>
                      \/ /\ ReturnedCode("OCF_ERR_GENERIC")
                         /\ ret.err.kind = "Could not query sequence number of local replica"
                         /\ loc.emitted = <<>>
              ELSE /\ ReturnedCode("OCF_SUCCESS")
                   /\ ret.err = NoErr
                   /\ loc.emitted = <<0>>
                   /\ HandlerStatements = <<"GetAvailabilityMode">>

\* a pre-promote on a CONFIGURATION_ONLY replica that emitted the sequence
\* number 2
C23_Witness ==
    /\ PrePromoting
    /\ loc.availabilityMode = AmCONFIGURATION_ONLY
    /\ loc.emitted = <<2>>
    /\ ReturnedCode("OCF_SUCCESS")

\* the handler demote was entered
Demoting == loc.caller = "demote"

Altered(i) == lib.calls[i].statements = 2

\* an AG row of this name held newValue when the i-th call came
HeldValue(i) ==
    lib.calls[i].before.present /\ lib.calls[i].before.rsstc = override.v

\* C25: SetRequiredSynchronizedSecondariesToCommit runs the ALTER AVAILABILITY
\* GROUP ... SET (REQUIRED_SYNCHRONIZED_SECONDARIES_TO_COMMIT = n) only if no
\* AG row of the name holds n already; of two calls in a row with the same
\* value on an existing AG, the first of which took effect, only the first
\* can run the ALTER.
C25_IdempotentSet ==
    /\ \A i \in 1..Len(lib.calls) : Altered(i) <=> ~HeldValue(i)
    /\ (Len(lib.calls) = 2 /\ lib.calls[1].before.present /\ lib.calls[1].err = NoErr)
        => /\ ~Altered(2)
           /\ HeldValue(2)
           /\ trace \in {<<"EXEC RSSTC", "ALTER RSSTC", "EXEC RSSTC">>,
                         <<"EXEC RSSTC", "EXEC RSSTC">>}

\* two calls with the value 2 on an AG that held 0: the first ran the ALTER,
\* the second did not
C25_Witness ==
    /\ pc = "setDone"
    /\ override.v = 2
    /\ lib.calls[1].before.present /\ lib.calls[1].before.rsstc = 0
    /\ lib.calls[1].err = NoErr
    /\ trace = <<"EXEC RSSTC", "ALTER RSSTC", "EXEC RSSTC">>
    /\ db.rsstc = 2

\* the upper-case form of a letter
Upper(c) == CASE c = "a" -> "A" [] c = "b" -> "B" [] OTHER -> c

\* the row with server_id 0 that the call met has the requested name, case
\* aside
RowHasRequestedName ==
    /\ lib.before.present
    /\ Len(lib.before.name) = Len(lib.serverName)
    /\ \A i \in 1..Len(lib.serverName) :
          Upper(lib.before.name[i]) = Upper(lib.serverName[i])

\* SetLocalServerName returned
ServerNameReturned == pc = "SetLocalServerName_returned"

\* C26: SetLocalServerName sends neither sp_dropserver nor sp_addserver when
\* the sys.servers row with server_id 0 equals the requested name case aside.
\* Otherwise it drops the row if there is one and then adds the requested
\* name; it never adds after a failed drop, and sends nothing when the lookup
\* fails with an error other than row-not-found.
C26_ServerNameIdempotent ==
    /\ Issued("sp_addserver") /\ lib.before.present
        => (trace = <<"SELECT sys.servers", "sp_dropserver", "sp_addserver">>
            /\ lib.dropErr = NoErr)
    /\ ServerNameReturned
        => IF lib.lookupErr # NoErr /\ lib.lookupErr # ErrNoRows
           THEN /\ trace = <<"SELECT sys.servers">>
                /\ lib.err = lib.lookupErr
                /\ lib.row = lib.before
           ELSE IF RowHasRequestedName
           THEN /\ trace = <<"SELECT sys.servers">>
                /\ lib.err = NoErr
                /\ lib.row = lib.before
           ELSE IF lib.before.present
           THEN IF lib.dropErr # NoErr
                THEN /\ trace = <<"SELECT sys.servers", "sp_dropserver">>
                     /\ lib.err = lib.dropErr
                     /\ lib.row = lib.before
                ELSE /\ trace = <<"SELECT sys.servers", "sp_dropserver", "sp_addserver">>
                     /\ lib.err = NoErr => lib.row = [present |-> TRUE, name |-> lib.serverName]
                     /\ lib.err # NoErr => lib.row = NoServerRow
           ELSE /\ trace = <<"SELECT sys.servers", "sp_addserver">>
                /\ lib.lookupErr = ErrNoRows
                /\ lib.err = NoErr => lib.row = [present |-> TRUE, name |-> lib.serverName]

\* the row is named aB and Ab is requested: nothing is dropped or added
C26_Witness ==
    /\ ServerNameReturned
    /\ lib.before.name = <<"a", "B">>
    /\ lib.serverName = <<"A", "b">>
    /\ lib.lookupErr = NoErr
    /\ trace = <<"SELECT sys.servers">>
    /\ lib.row = lib.before

\* C27: every connection that an OpenDB attempt opened during the invocation
\* has been closed when the process has ended, whether it ended through
\* OcfExit, through the unexpected-error exit or after the connect deadline.
C27_ClosedOnEveryExit == pc = "exited" => opened \subseteq closed

\* doMain went past the check of the error of OpenDBWithHealthCheck and is
\* about to set the session context
PastHealthCheck == pc = "session"

\* C28: whenever doMain proceeds past the health check to set the session
\* context, db is a non-nil, open connection, for every --health-threshold
\* value and every outcome of OpenDBWithHealthCheck, a timeout included.
C28_DbOpenAtSession ==
    PastHealthCheck => main.db # 0 /\ main.db \in opened \ closed

\* the attempts the connector had completed with an error when the timeout
\* case was taken: all before the current one, and the current one too once
\* its error is on offer or was handed over
FailedByDeadline ==
    IF main.atDeadline.pc \in {"sendErr", "sleep"}
    THEN main.atDeadline.i
    ELSE IF main.atDeadline.pc \in {"attempt", "sendDb"}
    THEN main.atDeadline.i - 1
    ELSE 0

\* C29: whenever the connector has completed a failed attempt by the time
\* the deadline fires, OpenDBWithHealthCheck returns an attempt's error and
\* not the constructed "timed out" error, however the connector's send and
\* the deadline interleave.
C29_AttemptErrorObserved ==
    TimedOut /\ FailedByDeadline >= 1
        => /\ \E n \in 1..MaxAttempts : AttemptError(n) = main.err
           /\ main.err # ServerUnhealthyError(ServerDownOrUnresponsive, "timed out")

\* the connector's send is pending: an error on errChannel or a connection
\* on dbChannel
SendPending == connector.pc \in {"sendErr", "sendDb"}

\* the connector has not returned, and a connection it offers is open and
\* not the one doMain holds
ConnectorOrphaned ==
    /\ connector.pc # "returned"
    /\ connector.pc = "sendDb"
        => connector.db \in opened \ closed /\ main.db # connector.db

\* from the timeout on: the select loop is not entered again, a pending send
\* stays pending with the same value, and no connection is closed
OrphanedStep ==
    TimedOut
    => /\ TimedOut'
       /\ pc' # "select"
       /\ SendPending => connector' = connector
       /\ connector.pc = "sendDb" => closed' = closed /\ main'.db = main.db

\* C30: after OpenDBWithHealthCheck has returned because the deadline fired,
\* the connector's next send, of an error or of a freshly opened connection,
\* has no receiver and stays blocked; the connector never terminates, and a
\* connection it opened after the deadline is never received or closed.
C30_ConnectorOrphaned ==
    /\ [](TimedOut => ConnectorOrphaned)
    /\ [][OrphanedStep]_vars

\* the connector was in an attempt when the deadline fired, the attempt
\* succeeded afterwards, and the connection is on offer with nobody to
\* receive it
C30_Witness ==
    /\ TimedOut
    /\ main.atDeadline.pc = "attempt"
    /\ connector.pc = "sendDb"
    /\ connector.db \in opened \ closed
    /\ main.db = 0
    /\ pc = "exited"

\* the connector goroutine runs: it was started and has not returned
ConnectorRunning == connector.pc \in {"attempt", "sendErr", "sendDb", "sleep"}

\* the errors the main flow has received are those of all attempts before the
\* current one, and of the current one once the connector sleeps
ErrorsOneAtATime ==
    ConnectorRunning
    => /\ connector.i >= 1
       /\ main.received = IF connector.pc = "sleep" THEN connector.i
                                                    ELSE connector.i - 1
       /\ connector.pc = "sendErr" => connector.err # NoErr /\ connector.db = 0
       /\ connector.pc = "sendDb" => connector.db # 0 /\ connector.err = NoErr

\* a step of the connect loop: an error leaves errChannel only into the main
\* flow and the connector sleeps next; the number of the attempt grows only
\* by the step from the sleep to the next attempt; a connection leaves
\* dbChannel only into the main flow, which leaves the select loop, and after
\* that nothing is received
ConnectLoopStep ==
    /\ connector.pc = "sendErr" /\ connector' # connector
        => /\ connector'.pc = "sleep"
           /\ connector'.i = connector.i
           /\ main'.received = main.received + 1
           /\ main'.err = connector.err
    /\ ConnectorRunning /\ connector'.i # connector.i /\ connector'.pc # "returned"
        => /\ connector.pc = "sleep"
           /\ connector'.pc = "attempt"
           /\ connector'.i = connector.i + 1
           /\ main.received = connector.i
    /\ connector.pc = "sendDb" /\ connector' # connector
        => /\ connector'.pc = "returned"
           /\ pc = "select" /\ pc' = "health"
           /\ main'.db \in {0, connector.db}
    /\ connector.pc = "returned"
        => /\ connector' = connector
           /\ pc' # "select"

\* C31: in the connect loop at most one value is pending on the two channels
\* at any moment; the connector starts attempt i+1 only after the main flow
\* received the error of attempt i and the connector slept; and after a
\* connection was received the main flow receives nothing more.
C31_OneAtATime ==
    /\ [](ErrorsOneAtATime /\ (connector.pc = "returned" => pc # "select"))
    /\ [][ConnectLoopStep]_vars

\* the connection of the second attempt was received after the error of the
\* first
C31_Witness ==
    /\ connector.pc = "returned"
    /\ main.received = 1
    /\ main.outcome = "diagnosed"
    /\ main.db = 1
    /\ pc = "health"

\* the statements after the checks of promote are one FAILOVER, role polls
\* and nothing else up to position last
FailoverThenPolls(last) ==
    \E f \in 1..last :
        /\ trace[f] = "FAILOVER"
        /\ f < last
        /\ \A i \in (f + 1)..last : trace[i] = "GetRole"
        /\ \A i \in 1..(f - 1) : trace[i] # "FAILOVER" /\ trace[i] # "EXEC RSSTC"

\* FAILOVER went through and the latest poll after it answered PRIMARY
FailoverAndPollSucceeded ==
    /\ loc.failoverErr = NoErr
    /\ loc.rolePolls >= 1
    /\ loc.pollErr = NoErr
    /\ loc.polledRole = RolePRIMARY

\* the position of the RSSTC batch in the trace
RsstcPosition == CHOOSE i \in 1..Len(trace) : trace[i] = "EXEC RSSTC"

\* C32: in promote the steps after the checks run in the order FAILOVER,
\* role polls until PRIMARY, RSSTC statement: the RSSTC statement is issued
\* only after FAILOVER succeeded and a poll saw PRIMARY, a failing RSSTC
\* statement makes promote return OCF_ERR_GENERIC, and on this path promote
\* returns OCF_SUCCESS only after all three steps succeeded.
C32_PromoteOrder ==
    /\ Promoting /\ pc = "setRSSTC"
        => FailoverThenPolls(Len(trace)) /\ FailoverAndPollSucceeded
    /\ Promoting /\ Issued("EXEC RSSTC")
        => /\ FailoverThenPolls(RsstcPosition - 1)
           /\ FailoverAndPollSucceeded
           /\ Returned
           /\ ret.err # NoErr => ReturnedCode("OCF_ERR_GENERIC")
           /\ ret.err = NoErr => ReturnedCode("OCF_SUCCESS")
    /\ Promoting /\ Returned /\ ret.code = "OCF_SUCCESS" /\ ~PromoteFoundPrimary
        => /\ Issued("FAILOVER")
           /\ FailoverAndPollSucceeded
           /\ Issued("EXEC RSSTC")
           /\ ret.err = NoErr

\* FAILOVER, a poll that saw RESOLVING, a poll that saw PRIMARY, and then the
\* RSSTC statement failed
C32_Witness ==
    /\ Promoting
    /\ ReturnedCode("OCF_ERR_GENERIC")
    /\ Issued("FAILOVER")
    /\ loc.rolePolls = 2
    /\ loc.polledRole = RolePRIMARY
    /\ Issued("ALTER RSSTC")
    /\ ret.err.src = "SetRequiredSynchronizedSecondariesToCommit"

\* waitUntilRoleSatisfies on its own: it is in its loop, or it has returned
WaitPolling == pc \in {"start_wait", "promote_wait"}

WaitReturned == pc = "waitUntilRoleSatisfies_returned"

\* role satisfies the predicate the caller passed
SatisfiesCallersPredicate(role) ==
    IF lib.predicate = "start" THEN role \in {RolePRIMARY, RoleSECONDARY}
    ELSE role = RolePRIMARY

\* the role of the local replica satisfies the predicate
RoleSettled == db.present /\ SatisfiesCallersPredicate(db.role)

\* in the loop no poll has failed and the latest role did not satisfy the
\* predicate; a return of nil follows a poll with a satisfying role; a
\* returned error is the error of the only poll that failed
WaitResult ==
    /\ WaitPolling
        => /\ lib.failed = 0 /\ lib.err = NoErr
           /\ lib.polls >= 1 => ~SatisfiesCallersPredicate(lib.role)
    /\ WaitReturned /\ lib.err = NoErr
        => lib.polls >= 1 /\ lib.failed = 0 /\ SatisfiesCallersPredicate(lib.role)
    /\ WaitReturned /\ lib.err # NoErr
        => lib.polls >= 1 /\ lib.failed = 1 /\ lib.err \in {ErrNoRows, QueryErr("GetRole")}

\* a poll that succeeds with a role that does not satisfy the predicate is
\* followed by another round, whatever the number of polls so far; the
\* function returns only from a poll
WaitStep ==
    /\ WaitPolling /\ lib' # lib /\ lib'.err = NoErr
            /\ ~SatisfiesCallersPredicate(lib'.role)
        => pc' = pc
    /\ WaitPolling /\ WaitReturned' => lib' # lib
    /\ WaitReturned => WaitReturned' /\ lib' = lib

\* C33: waitUntilRoleSatisfies returns nil only after a role poll returned a
\* role satisfying the predicate, and returns the error of the first failing
\* poll; it has no poll bound, so it keeps polling while polls succeed with a
\* role that does not satisfy the predicate; and it eventually returns if
\* the role eventually satisfies the predicate and stays so.
C33_WaitUntilRoleSatisfies ==
    /\ []WaitResult
    /\ [][WaitStep]_vars
    /\ (<>[]RoleSettled => <>WaitReturned)

\* more than MaxPolls polls have answered with a role that does not satisfy
\* the predicate of promote, and the loop goes on
C33_Witness ==
    /\ WaitPolling
    /\ lib.predicate = "promote"
    /\ lib.polls = MaxPolls + 1
    /\ lib.role = RoleSECONDARY

\* the operator gave --required-synchronized-secondaries-to-commit v, v >= 0
OverrideGiven == override.set

\* the handler is monitor (also as the end of start), pre-start or post-stop
Reconciling == loc.caller \in {"monitor", "start", "preStart", "postStop"}

\* the RSSTC batch was sent and did not fail
RsstcApplied ==
    /\ Returned
    /\ Issued("EXEC RSSTC")
    /\ ret.err = NoErr

\* C34: with an override value v >= 0, monitor, pre-start, post-stop and
\* promote apply exactly v as the RSSTC value: monitor, pre-start and
\* post-stop never query the number of SYNCHRONOUS_COMMIT replicas, and
\* promote uses v both in the quorum check and in the final RSSTC statement.
C34_OverrideVerbatim ==
    /\ OverrideGiven /\ Reconciling
        => /\ ~Issued("GetNumSyncCommitReplicas")
           /\ ~loc.numSyncQueried
           /\ pc # "calculateRSSTC"
           /\ RsstcApplied => db.present /\ db.rsstc = override.v
    /\ OverrideGiven /\ Promoting /\ loc.numSyncQueried
        => /\ loc.requiredValue = override.v
           /\ (pc = "promote_failover" \/ Issued("FAILOVER"))
                <=> /\ override.v <= loc.numSyncCommitReplicas
                    /\ loc.numSequenceNumbers >= loc.numSyncCommitReplicas - override.v
           /\ RsstcApplied => db.present /\ db.rsstc = override.v

\* monitor on a primary applied the operator's MaxInt32 without asking for
\* the number of replicas
C34_Witness ==
    /\ OverrideGiven
    /\ override.v = MaxInt32
    /\ loc.caller = "monitor"
    /\ ReturnedCode("OCF_RUNNING_MASTER")
    /\ Issued("ALTER RSSTC")
    /\ ret.err = NoErr
    /\ db.rsstc = MaxInt32

\* the slots after the i-th call of ImportOcfExitCodes
SlotsAfter(i) == IF i = Len(lib.calls) THEN ocf ELSE lib.calls[i + 1].before

\* the positions in ImportOrder of the variables whose text in env is no
\* integer
InvalidPositionsIn(env) ==
    {i \in 1..Len(ImportOrder) : ~IsDecimalInteger(env[ImportOrder[i]])}

\* C35 as stated: the import is all-or-nothing; if ImportOcfExitCodes returns
\* an error, none of the nine slots has changed from its value before the
\* call.
C35_AllOrNothing ==
    \A i \in 1..Len(lib.calls) :
        lib.calls[i].err # NoErr => SlotsAfter(i) = lib.calls[i].before

\* C35 (amended): if ImportOcfExitCodes returns an error, the slots of the
\* variables imported before the first invalid one hold those variables'
\* integers, the slot of the first invalid variable is 0, and the slots of
\* the variables after it in import order have not changed; if it returns no
\* error, every slot holds its variable's integer.
C35_ImportStopsAtFirstInvalid ==
    \A i \in 1..Len(lib.calls) :
        LET call == lib.calls[i]
            invalid == InvalidPositionsIn(call.env)
        IN  /\ call.err # NoErr <=> invalid # {}
            /\ invalid = {}
                => \A n \in OcfNameSet :
                       SlotsAfter(i)[n] = DecValue(StripZeros(call.env[n]))
            /\ invalid # {}
                => LET first == CHOOSE f \in invalid : \A j \in invalid : f <= j
                   IN  \A j \in 1..Len(ImportOrder) :
                           SlotsAfter(i)[ImportOrder[j]] =
                               IF j < first
                               THEN DecValue(StripZeros(call.env[ImportOrder[j]]))
                               ELSE IF j = first THEN 0
                               ELSE call.before[ImportOrder[j]]

\* as in the test: after an import of nine valid variables OCF_SUCCESS is
\* unset and the import called again; the second call fails and leaves the
\* slot of OCF_SUCCESS at 0 instead of 1
C35_Witness ==
    /\ Len(lib.calls) = 2
    /\ lib.calls[1].err = NoErr
    /\ lib.calls[2].env["OCF_SUCCESS"] = <<>>
    /\ lib.calls[2].err # NoErr
    /\ lib.calls[2].before["OCF_SUCCESS"] = 1
    /\ ocf["OCF_SUCCESS"] = 0
    /\ ocf["OCF_RUNNING_MASTER"] = 9

\* C36: in promote, requiredNumSequenceNumbers = numSync - requiredValue lies
\* in 0..numSync for every numSync and every override value the dispatcher
\* accepts (0..MaxInt32): the unsigned subtraction never wraps around.
C36_SubtractionInRange ==
    Promoting /\ loc.numSyncQueried
    => LET requiredNumSequenceNumbers ==
               UintSub(loc.numSyncCommitReplicas, loc.requiredValue)
       IN  /\ ~requiredNumSequenceNumbers.wrapped
           /\ requiredNumSequenceNumbers.v \in 0..loc.numSyncCommitReplicas

\* the sets of k of the n SYNCHRONOUS_COMMIT replicas
ReplicaSets(n, k) == {S \in SUBSET (1..n) : Cardinality(S) = k}

\* C37: quorum intersection.  For every numSync >= 1 the calculated
\* requiredValue is at most numSync - 1 and
\* (numSync - requiredValue) + (requiredValue + 1) > numSync, so every set of
\* numSync - requiredValue distinct synchronous replicas shares a member with
\* every set of requiredValue + 1 synchronous replicas.
C37_QuorumIntersection ==
    calc.done /\ calc.numReplicas >= 1
    => LET numSync == calc.numReplicas
           requiredValue == calc.result
       IN  /\ requiredValue <= numSync - 1
           /\ (numSync - requiredValue) + (requiredValue + 1) > numSync
           /\ numSync <= MaxReplicaSets
                => \A reported \in ReplicaSets(numSync, numSync - requiredValue) :
                       \A committed \in ReplicaSets(numSync, requiredValue + 1) :
                           reported \cap committed # {}

\* three replicas, required value 1: two reporting replicas and the primary
\* with one synchronized secondary can share exactly one replica
C37_Witness ==
    /\ calc.done
    /\ calc.numReplicas = 3
    /\ calc.result = 1
    /\ \E reported \in ReplicaSets(3, 3 - calc.result) :
          \E committed \in ReplicaSets(3, calc.result + 1) :
              Cardinality(reported \cap committed) = 1

\* the hosts named in the lines of --sequence-numbers that the line regex
\* matches
MatchedHosts == {flags.sequenceNumbers[i].host : i \in MatchedLines}

\* promote passed its quorum check
PassedQuorumCheck ==
    Promoting /\ loc.numSyncQueried /\ (pc = "promote_failover" \/ Issued("FAILOVER"))

\* C38 as stated: promote issues FAILOVER only when at least
\* numSync - requiredValue distinct hosts appear in the matched
\* sequence-number lines; several lines for the same host count once.
C38_DistinctHosts ==
    PassedQuorumCheck
    => Cardinality(MatchedHosts) >= loc.numSyncCommitReplicas - loc.requiredValue

\* C38 (amended): promote issues FAILOVER only when at least
\* numSync - requiredValue lines of --sequence-numbers match the line regex;
\* it counts lines and does not look at the hosts, so several lines for the
\* same host count once each.
C38_LinesCounted ==
    PassedQuorumCheck
    => /\ loc.numSequenceNumbers = Cardinality(MatchedLines)
       /\ loc.requiredValue <= loc.numSyncCommitReplicas
       /\ Cardinality(MatchedLines) >= loc.numSyncCommitReplicas - loc.requiredValue

\* FAILOVER was issued with two replicas and required value 0 on two lines
\* that both name the same host
C38_Witness ==
    /\ Promoting
    /\ Issued("FAILOVER")
    /\ loc.numSyncCommitReplicas = 2
    /\ loc.requiredValue = 0
    /\ Cardinality(MatchedLines) = 2
    /\ Cardinality(MatchedHosts) = 1

\* pre-promote found the replica in ASYNCHRONOUS_COMMIT mode and printed its
\* one line, and promote was invoked afterwards
AsyncAtPrePromote ==
    /\ lib.done
    /\ lib.availabilityMode = AmASYNCHRONOUS_COMMIT
    /\ Len(lib.emitted) = 1

\* every line of --sequence-numbers for --new-master carries the value that
\* pre-promote printed (none of them, if the value was not delivered)
NewMasterValueAsEmitted ==
    \A i \in NewMasterLines :
        flags.sequenceNumbers[i].value = DecText(lib.emitted[1])

\* C39: across pre-promote and promote, if the value given for new-master in
\* --sequence-numbers is the value pre-promote emitted on that replica, a
\* replica whose availability mode is ASYNCHRONOUS_COMMIT is never promoted:
\* promote issues no FAILOVER and, unless it finds the replica PRIMARY
\* already, returns OCF_ERR_GENERIC, with or without --skip-precheck.
C39_AsyncNeverPromoted ==
    AsyncAtPrePromote /\ Promoting
    => /\ lib.emitted = <<0>>
       /\ loc.parsed /\ NewMasterValueAsEmitted
            => /\ ~Issued("FAILOVER")
               /\ ~Issued("EXEC RSSTC")
               /\ ReturnedCode("OCF_ERR_GENERIC")
               /\ ret.err # NoErr
       /\ ~loc.parsed
            => /\ ~Issued("FAILOVER")
               /\ Returned /\ ~PromoteFoundPrimary => ReturnedCode("OCF_ERR_GENERIC")

\* promote was called with --skip-precheck and a line for new-master with
\* the 0 that pre-promote had printed on the asynchronous replica; no other
\* replica reported more, and promote refused
C39_Witness ==
    /\ AsyncAtPrePromote
    /\ Promoting
    /\ flags.skipPreCheck
    /\ loc.parsed
    /\ NewMasterLines # {}
    /\ NewMasterValueAsEmitted
    /\ loc.maxSequenceNumber = 0
    /\ ReturnedCode("OCF_ERR_GENERIC")
    /\ ~Issued("FAILOVER")

\* ---------------------------------------------------------------------- C40
\* the role the invocation read last, if it read one
ObservedPrimary == loc.roleQueried /\ loc.role = RolePRIMARY

\* the first RSSTC statement of the invocation comes after a query of the role
RoleReadBeforeRsstc ==
    \E i \in 1..(RsstcPosition - 1) : trace[i] = "GetRole"

\* C40: whatever the action, the RSSTC statement is sent only after the same
\* invocation read the role of the local replica and found PRIMARY: monitor
\* (also as the end of start) in its role switch, pre-start and post-stop in
\* isPrimary, promote in a poll of its wait after the FAILOVER. pre-promote
\* and demote never send it, start sends none before it calls monitor, and a
\* monitor, pre-start or post-stop that read SECONDARY or RESOLVING returns
\* without it.
C40_RsstcAfterPrimary ==
    /\ Issued("EXEC RSSTC")
         => /\ ObservedPrimary /\ RoleReadBeforeRsstc
            /\ loc.caller \in {"monitor", "start", "preStart", "postStop", "promote"}
            /\ loc.caller \in {"monitor", "start"} => loc.monitorRole = "found"
            /\ loc.caller \in {"preStart", "postStop"} => loc.isPrimary
            /\ Promoting
                 => /\ loc.rolePolls >= 1 /\ loc.pollErr = NoErr
                    /\ loc.polledRole = RolePRIMARY
                    /\ ~loc.isPrimary
    /\ pc \in {"start", "start_wait"} => ~Issued("EXEC RSSTC")
    /\ (/\ Returned /\ loc.caller \in {"monitor", "preStart", "postStop"}
        /\ loc.roleQueried /\ loc.role \in {RoleSECONDARY, RoleRESOLVING})
       => ~Issued("EXEC RSSTC")

\* a promote whose first poll after the FAILOVER did not find PRIMARY sent the
\* statement after a later poll did
C40_Witness ==
    /\ Returned /\ Promoting /\ Issued("EXEC RSSTC")
    /\ loc.rolePolls >= 2 /\ loc.polledRole = RolePRIMARY

====
